---- MODULE Spec2Model ----
(***************************************************************************)
(* A model of aqt_sim: packets routed hop by hop through a network of      *)
(* edge buffers under the forwarding protocols Greedy-FIFO, Greedy-LIS and *)
(* OED-with-Swap.                                                          *)
(*                                                                         *)
(* Conventions.                                                            *)
(*  - A Rust Vec is a TLA+ sequence; a 0-based index i of the code is the  *)
(*    1-based index i + 1 of the sequence.                                 *)
(*  - Option<T> is a sequence of length at most one: None is << >> and     *)
(*    Some(x) is << x >>.                                                  *)
(*  - An operation that can panic returns a record with a field "panic";   *)
(*    when it is TRUE the process has aborted and the other fields are     *)
(*    meaningless.                                                         *)
(***************************************************************************)
EXTENDS Integers, Sequences, FiniteSets, TLC

(***************************************************************************)
(* Bounds of the model.                                                    *)
(***************************************************************************)
\* largest number of buffers of a path network (construct_path argument)
MaxBuffers == 2
\* number of packets one factory mints in a run
MaxPackets == 3
\* largest injection round passed to create_packet
MaxRd == 1
\* largest capacity of a greedy protocol
MaxCapacity == 2
\* the same bounds for the runs of OED-with-Swap alone, on one path network
\* with packets that all follow the path of the tests of oed.rs, which ends
\* one node before the network does (PATH_LEN of the tests)
OEDBuffers == 4
OEDPackets == 4
OEDMaxRd == 2
\* the runs of the packet operations alone: the longest path, and the
\* largest cursor a packet is created with or advanced to
PktMaxLen == 4
PktMaxIdx == 6
\* the runs of the Network interface alone: nodes, edges and packets
NetMaxNodes == 3
NetMaxEdges == 2
NetMaxPackets == 2
\* the runs of Simulation::run: buffers of the path network, the round after
\* which no further round is started, the sigma of the bursty adversary, the
\* load of the total-load threshold and the number of recorders
RunMaxBuffers == 3
RunMaxRd == 2
RunMaxSigma == 1
RunMaxLoad == 2
RunMaxRecorders == 2
\* the runs of OED-with-Swap set up as the tests of oed.rs set them up:
\* buffers of the path network (PATH_LEN of the tests) and packets
SwapBuffers == 4
SwapPackets == 6
\* the runs of the greedy protocols on a network in which a node has two
\* outgoing edges: the packets injected
GraphPackets == 2

VARIABLES
    network,    \* the Network: [nodes, edgebuffer_map]
    protocol,   \* the Protocol value: [name, capacity]
    factory,    \* the PacketFactory: [cur_id]
    absorbed,   \* the Vec<Packet> returned by the last forward_packets call
    issued,     \* history: the ids the factory has issued, in call order
    arg,        \* history: Some(packet handed to the last add_packet), or None
    pre,        \* history: the network as it was before the last operation
                \* (in the runs of the packet operations: Some(the packet as
                \* create_packet returned it))
    lastOp,     \* history: the last operation that ran
    status,     \* "ok", or "panic" once an operation has panicked
    packet,     \* Some(the packet advance and retreat act on), or None
    ret,        \* history: the arguments and the result of the last Network call
                \* (in the runs of the packet operations: Some(the value the
                \* last dist_to_go returned), or None)
    hash,       \* per node, the iteration order of its HashMap of edge buffers
    added,      \* history: the edges in the order add_edgebuffer added them
    pc,         \* the position of Simulation::run in its loop
    rd,         \* the local rd of Simulation::run
    threshold,  \* the Threshold of the simulation
    adversary,  \* the Adversary of the simulation
    recorders,  \* the Vec<Recorder> of the simulation
    trace,      \* history: the calls Simulation::run has made, in order
    locals      \* history: Some(the locals of the last forward_packets call:
                \* the listing eb_ids or the vectors oed_criterion and
                \* forward_or_backward, and the pending-move list), or None

\* the variables of the protocol runs, and those of the runs of the packet
\* operations, of the Network interface and of Simulation::run
others == <<packet, ret, hash, added, pc, rd, threshold, adversary, recorders,
            trace>>

vars == <<network, protocol, factory, absorbed, issued, arg, pre, lastOp, status,
          packet, ret, hash, added, pc, rd, threshold, adversary, recorders,
          trace, locals>>

None == << >>
Some(x) == << x >>

Min(a, b) == IF a < b THEN a ELSE b

\* Vec::remove(idx) with a 0-based idx: the vector without that element
RemoveAt(s, idx) == SubSeq(s, 1, idx) \o SubSeq(s, idx + 2, Len(s))

\* the variables a run does not use keep these values
OthersIdle ==
    /\ packet = << >>
    /\ ret = << >>
    /\ hash = << >>
    /\ added = << >>
    /\ pc = "idle"
    /\ rd = 0
    /\ threshold = << >>
    /\ adversary = << >>
    /\ recorders = << >>
    /\ trace = << >>
    /\ locals = << >>

(***************************************************************************)
(* packet.rs                                                               *)
(***************************************************************************)
is_absorbed(p) == p.path_idx = Len(p.path)

\* faulty variant: absorption tested with is_absorbed, one hop too late
should_be_absorbed_late(p) ==
    {[panic |-> FALSE, value |-> p.path_idx = Len(p.path)]}

\* The outcomes of should_be_absorbed: path_idx == path.len() - 1 in usize.
\* On an empty path the subtraction underflows: a build with overflow checks
\* panics, a build without them wraps to 2^64 - 1, written -1.
should_be_absorbed(p) ==
    {[panic |-> FALSE, value |-> p.path_idx = Len(p.path) - 1]} \cup
    (IF Len(p.path) = 0 THEN {[panic |-> TRUE, value |-> FALSE]} ELSE {})

\* faulty variant: the absorbed packet is advanced all the same
increment_path_idx_unchecked(p) ==
    [panic |-> FALSE, packet |-> [p EXCEPT !.path_idx = @ + 1]]

increment_path_idx(p) ==
    IF is_absorbed(p)
    THEN [panic |-> TRUE, packet |-> p]
    ELSE [panic |-> FALSE, packet |-> [p EXCEPT !.path_idx = @ + 1]]

decrement_path_idx(p) ==
    IF p.path_idx = 0
    THEN [panic |-> TRUE, packet |-> p]
    ELSE [panic |-> FALSE, packet |-> [p EXCEPT !.path_idx = @ - 1]]

cur_node(p) ==
    IF p.path_idx < Len(p.path) THEN Some(p.path[p.path_idx + 1]) ELSE None

next_node(p) ==
    IF p.path_idx + 1 < Len(p.path) THEN Some(p.path[p.path_idx + 2]) ELSE None

\* The outcomes of dist_to_go: path.len() - path_idx + 1 in usize.  When the
\* cursor is beyond the path the subtraction underflows: a build with
\* overflow checks panics, a build without them wraps modulo 2^64.  A
\* wrapped value 2^64 - k is written -k.
dist_to_go(p) ==
    IF p.path_idx <= Len(p.path)
    THEN {[panic |-> FALSE, value |-> Len(p.path) - p.path_idx + 1]}
    ELSE {[panic |-> TRUE, value |-> 0],
          [panic |-> FALSE, value |-> Len(p.path) - p.path_idx + 1]}

PacketFactory_new == [cur_id |-> 0]

\* faulty variant: the counter is not advanced
create_packet_reuse(f, path, injection_rd, path_idx) ==
    [packet  |-> [id |-> f.cur_id, path |-> path, path_idx |-> path_idx,
                  injection_rd |-> injection_rd],
     factory |-> f]

create_packet(f, path, injection_rd, path_idx) ==
    [packet  |-> [id |-> f.cur_id, path |-> path, path_idx |-> path_idx,
                  injection_rd |-> injection_rd],
     factory |-> [f EXCEPT !.cur_id = @ + 1]]

(***************************************************************************)
(* network.rs                                                              *)
(***************************************************************************)
Network_new == [nodes |-> 0, edgebuffer_map |-> << >>]

add_node(net) == [net EXCEPT !.nodes = @ + 1]

\* TRUE iff check_node_id panics
check_node_id(net, node_id) == node_id >= net.nodes

HasEdge(net, from_id, to_id) == <<from_id, to_id>> \in DOMAIN net.edgebuffer_map

\* faulty variant: no test for an existing buffer; insert replaces it
add_edgebuffer_overwrite(net, from_id, to_id) ==
    IF check_node_id(net, to_id) \/ check_node_id(net, from_id)
    THEN [panic |-> TRUE, net |-> net]
    ELSE [panic |-> FALSE,
          net |-> [net EXCEPT !.edgebuffer_map =
                       (<<from_id, to_id>> :> << >>) @@ @]]

add_edgebuffer(net, from_id, to_id) ==
    IF check_node_id(net, to_id) \/ check_node_id(net, from_id)
    THEN [panic |-> TRUE, net |-> net]
    ELSE IF HasEdge(net, from_id, to_id)
    THEN [panic |-> TRUE, net |-> net]
    ELSE [panic |-> FALSE,
          net |-> [net EXCEPT !.edgebuffer_map =
                       @ @@ (<<from_id, to_id>> :> << >>)]]

get_num_nodes(net) == net.nodes

\* faulty variant: a missing edge is answered with an empty buffer
get_edgebuffer_or_empty(net, from_id, to_id) ==
    IF check_node_id(net, from_id) \/ check_node_id(net, to_id)
    THEN [panic |-> TRUE, eb |-> None]
    ELSE IF HasEdge(net, from_id, to_id)
    THEN [panic |-> FALSE, eb |-> Some(net.edgebuffer_map[<<from_id, to_id>>])]
    ELSE [panic |-> FALSE, eb |-> Some(<< >>)]

\* get_edgebuffer / get_edgebuffer_mut: the buffer as an Option
get_edgebuffer(net, from_id, to_id) ==
    IF check_node_id(net, from_id) \/ check_node_id(net, to_id)
    THEN [panic |-> TRUE, eb |-> None]
    ELSE IF HasEdge(net, from_id, to_id)
    THEN [panic |-> FALSE, eb |-> Some(net.edgebuffer_map[<<from_id, to_id>>])]
    ELSE [panic |-> FALSE, eb |-> None]

\* the network with the buffer of an existing edge replaced
SetBuffer(net, from_id, to_id, buffer) ==
    [net EXCEPT !.edgebuffer_map[<<from_id, to_id>>] = buffer]

Buffer(net, from_id, to_id) == net.edgebuffer_map[<<from_id, to_id>>]

\* The edges grouped by from-node in ascending order; within one from-node
\* the order is the iteration order of a hash map, which is arbitrary: the
\* set of all listings the call can return.
\* faulty variant: the listing is in any order, not grouped by from-node
get_edgebuffers_any_order(net) ==
    LET E == DOMAIN net.edgebuffer_map
        n == Cardinality(E)
    IN  { s \in [1..n -> E] : \A i, j \in 1..n : i # j => s[i] # s[j] }

get_edgebuffers(net) ==
    LET E == DOMAIN net.edgebuffer_map
        n == Cardinality(E)
    IN  { s \in [1..n -> E] :
            /\ \A i, j \in 1..n : i # j => s[i] # s[j]
            /\ \A i, j \in 1..n : i < j => s[i][1] <= s[j][1] }

RECURSIVE AddNodes(_, _)
AddNodes(net, k) == IF k = 0 THEN net ELSE AddNodes(add_node(net), k - 1)

RECURSIVE AddPathEdges(_, _, _)
AddPathEdges(net, buff_id, num_buffers) ==
    IF buff_id >= num_buffers THEN net
    ELSE AddPathEdges(add_edgebuffer(net, buff_id, buff_id + 1).net,
                      buff_id + 1, num_buffers)

construct_path(num_buffers) ==
    AddPathEdges(AddNodes(Network_new, num_buffers + 1), 0, num_buffers)

(***************************************************************************)
(* protocol/priority.rs                                                    *)
(***************************************************************************)
\* faulty variant: equal rounds are decided by id with <= instead of <
lis_higher_priority_le(p, q) ==
    IF p.injection_rd < q.injection_rd THEN TRUE
    ELSE IF p.injection_rd = q.injection_rd THEN p.id <= q.id
    ELSE FALSE

lis_higher_priority(p, q) ==
    IF p.injection_rd < q.injection_rd THEN TRUE
    ELSE IF p.injection_rd = q.injection_rd THEN p.id < q.id
    ELSE FALSE

(***************************************************************************)
(* protocol/mod.rs: the default ProtocolTrait::add_packet                  *)
(***************************************************************************)
\* faulty variant: the packet is inserted at the front of the buffer
add_packet_front(p, net) ==
    LET cur == cur_node(p)
        next == next_node(p)
    IN  IF cur = None \/ next = None
        THEN [panic |-> TRUE, net |-> net]
        ELSE LET r == get_edgebuffer(net, cur[1], next[1])
             IN  IF r.panic \/ r.eb = None
                 THEN [panic |-> TRUE, net |-> net]
                 ELSE [panic |-> FALSE,
                       net |-> SetBuffer(net, cur[1], next[1],
                                         <<p>> \o r.eb[1])]

\* faulty variant: the packet is put into the buffer of the edge it has just
\* crossed, (path[path_idx - 1], path[path_idx])
add_packet_behind(p, net) ==
    LET cur == cur_node(p)
    IN  IF cur = None \/ p.path_idx = 0
        THEN [panic |-> TRUE, net |-> net]
        ELSE LET r == get_edgebuffer(net, p.path[p.path_idx], cur[1])
             IN  IF r.panic \/ r.eb = None
                 THEN [panic |-> TRUE, net |-> net]
                 ELSE [panic |-> FALSE,
                       net |-> SetBuffer(net, p.path[p.path_idx], cur[1],
                                         Append(r.eb[1], p))]

add_packet(p, net) ==
    LET cur == cur_node(p)
        next == next_node(p)
    IN  IF cur = None \/ next = None
        THEN [panic |-> TRUE, net |-> net]
        ELSE LET r == get_edgebuffer(net, cur[1], next[1])
             IN  IF r.panic \/ r.eb = None
                 THEN [panic |-> TRUE, net |-> net]
                 ELSE [panic |-> FALSE,
                       net |-> SetBuffer(net, cur[1], next[1],
                                         Append(r.eb[1], p))]

\* faulty variant: a packet that should be absorbed is dropped, not returned
RECURSIVE ReplayLosing(_, _, _)
ReplayLosing(packets, net, acc) ==
    IF packets = << >>
    THEN [panic |-> FALSE, net |-> net, absorbed |-> acc]
    ELSE LET p == Head(packets)
         IN  IF \E o \in should_be_absorbed(p) : ~o.panic /\ o.value
             THEN ReplayLosing(Tail(packets), net, acc)
             ELSE LET r == add_packet(p, net)
                  IN  IF r.panic
                      THEN [panic |-> TRUE, net |-> net, absorbed |-> acc]
                      ELSE ReplayLosing(Tail(packets), r.net, acc)

\* the replay loop shared by the three forward_packets implementations:
\* every moved packet is absorbed or re-inserted, in list order.  On a
\* packet with an empty path the loop panics in either build: in
\* should_be_absorbed, or, after its wrapped answer, in add_packet.
RECURSIVE Replay(_, _, _)
Replay(packets, net, acc) ==
    IF packets = << >>
    THEN [panic |-> FALSE, net |-> net, absorbed |-> acc]
    ELSE LET p == Head(packets)
         IN  IF \E o \in should_be_absorbed(p) : ~o.panic /\ o.value
             THEN Replay(Tail(packets), net, Append(acc, p))
             ELSE LET r == add_packet(p, net)
                  IN  IF r.panic
                      THEN [panic |-> TRUE, net |-> net, absorbed |-> acc]
                      ELSE Replay(Tail(packets), r.net, acc)

(***************************************************************************)
(* protocol/greedy.rs                                                      *)
(***************************************************************************)
GreedyFIFO_new(capacity) == [name |-> "greedy_fifo", capacity |-> capacity]
GreedyLIS_new(capacity) == [name |-> "greedy_lis", capacity |-> capacity]

\* the loop of GreedyFIFO::get_buffer_packets_to_fwd: k removals from the
\* front; a packet is out of the buffer when its increment_path_idx panics
RECURSIVE FifoLoop(_, _, _)
FifoLoop(buffer, k, acc) ==
    IF k = 0
    THEN [panic |-> FALSE, buffer |-> buffer, packets |-> acc]
    ELSE LET r == increment_path_idx(buffer[1])
         IN  IF r.panic
             THEN [panic |-> TRUE, buffer |-> RemoveAt(buffer, 0),
                   packets |-> acc]
             ELSE FifoLoop(RemoveAt(buffer, 0), k - 1, Append(acc, r.packet))


\* faulty variant: the packets are removed from the back of the buffer
RECURSIVE FifoLoop_back(_, _, _)
FifoLoop_back(buffer, k, acc) ==
    IF k = 0
    THEN [panic |-> FALSE, buffer |-> buffer, packets |-> acc]
    ELSE LET r == increment_path_idx(buffer[Len(buffer)])
         IN  IF r.panic
             THEN [panic |-> TRUE, buffer |-> buffer, packets |-> acc]
             ELSE FifoLoop_back(RemoveAt(buffer, Len(buffer) - 1), k - 1,
                                Append(acc, r.packet))

GreedyFIFO_get_buffer_packets_to_fwd_back(capacity, buffer) ==
    FifoLoop_back(buffer, Min(capacity, Len(buffer)), << >>)

GreedyFIFO_get_buffer_packets_to_fwd(capacity, buffer) ==
    FifoLoop(buffer, Min(capacity, Len(buffer)), << >>)

\* the inner loop of GreedyLIS::get_buffer_packets_to_fwd: the first index
\* holding the smallest injection round (best = << >> stands for usize::MAX)
RECURSIVE MinInjectionIdx(_, _, _, _)
MinInjectionIdx(buffer, i, min_injection_rd, min_injection_idx) ==
    IF i >= Len(buffer) THEN min_injection_idx
    ELSE IF min_injection_rd = None \/ buffer[i + 1].injection_rd < min_injection_rd[1]
    THEN MinInjectionIdx(buffer, i + 1, Some(buffer[i + 1].injection_rd), i)
    ELSE MinInjectionIdx(buffer, i + 1, min_injection_rd, min_injection_idx)

RECURSIVE LisLoop(_, _, _)
LisLoop(buffer, k, acc) ==
    IF k = 0
    THEN [panic |-> FALSE, buffer |-> buffer, packets |-> acc]
    ELSE LET idx == MinInjectionIdx(buffer, 0, None, 0)
             r == increment_path_idx(buffer[idx + 1])
         IN  IF r.panic
             THEN [panic |-> TRUE, buffer |-> RemoveAt(buffer, idx),
                   packets |-> acc]
             ELSE LisLoop(RemoveAt(buffer, idx), k - 1, Append(acc, r.packet))

\* faulty variant: the capacity is ignored and the buffer is emptied
GreedyLIS_get_buffer_packets_to_fwd_all(capacity, buffer) ==
    LisLoop(buffer, Len(buffer), << >>)


\* faulty variant: Greedy-LIS removes from the front, like Greedy-FIFO
GreedyLIS_get_buffer_packets_to_fwd_front(capacity, buffer) ==
    FifoLoop(buffer, Min(capacity, Len(buffer)), << >>)

GreedyLIS_get_buffer_packets_to_fwd(capacity, buffer) ==
    LisLoop(buffer, Min(capacity, Len(buffer)), << >>)

\* the scan of forward_packets over the listing eb_ids: every buffer gives up
\* its packets to forward, which are collected in listing order
RECURSIVE GreedyScan(_, _, _, _)
GreedyScan(proto, eb_ids, net, acc) ==
    IF eb_ids = << >>
    THEN [panic |-> FALSE, net |-> net, packets |-> acc]
    ELSE LET e == Head(eb_ids)
             b == Buffer(net, e[1], e[2])
             r == IF proto.name = "greedy_fifo"
                  THEN GreedyFIFO_get_buffer_packets_to_fwd(proto.capacity, b)
                  ELSE GreedyLIS_get_buffer_packets_to_fwd(proto.capacity, b)
         IN  IF r.panic
             THEN [panic |-> TRUE,
                   net |-> SetBuffer(net, e[1], e[2], r.buffer),
                   packets |-> acc]
             ELSE GreedyScan(proto, Tail(eb_ids),
                             SetBuffer(net, e[1], e[2], r.buffer),
                             acc \o r.packets)


\* faulty variant: the packets of a buffer are re-inserted as soon as the
\* buffer has been scanned, before the next buffer is scanned
RECURSIVE EagerScan(_, _, _, _)
EagerScan(proto, eb_ids, net, acc) ==
    IF eb_ids = << >>
    THEN [panic |-> FALSE, net |-> net, absorbed |-> acc]
    ELSE LET s == GreedyScan(proto, <<Head(eb_ids)>>, net, << >>)
             r == Replay(s.packets, s.net, acc)
         IN  IF s.panic \/ r.panic
             THEN [panic |-> TRUE, net |-> net, absorbed |-> << >>]
             ELSE EagerScan(proto, Tail(eb_ids), r.net, r.absorbed)

Greedy_forward_packets_eager(proto, eb_ids, net) ==
    EagerScan(proto, eb_ids, net, << >>)

\* GreedyFIFO::forward_packets and GreedyLIS::forward_packets, for the
\* listing eb_ids returned by get_edgebuffers
Greedy_forward_packets(proto, eb_ids, net) ==
    LET s == GreedyScan(proto, eb_ids, net, << >>)
    IN  IF s.panic
        THEN [panic |-> TRUE, net |-> s.net, absorbed |-> << >>]
        ELSE Replay(s.packets, s.net, << >>)

(***************************************************************************)
(* protocol/oed.rs                                                         *)
(***************************************************************************)
OEDWithSwap_new == [name |-> "oed_swap", capacity |-> 1]

RECURSIVE HiScan(_, _, _)
HiScan(buffer, i, hipri_idx) ==
    IF i >= Len(buffer) THEN hipri_idx
    ELSE IF lis_higher_priority(buffer[i + 1], buffer[hipri_idx + 1])
    THEN HiScan(buffer, i + 1, i)
    ELSE HiScan(buffer, i + 1, hipri_idx)

\* faulty variant: the packet at the front is taken for the oldest
highest_priority_idx_head(buffer) ==
    IF Len(buffer) = 0 THEN None ELSE Some(0)

highest_priority_idx(buffer) ==
    IF Len(buffer) = 0 THEN None ELSE Some(HiScan(buffer, 1, 0))

RECURSIVE LoScan(_, _, _)
LoScan(buffer, i, lopri_idx) ==
    IF i >= Len(buffer) THEN lopri_idx
    ELSE IF lis_higher_priority(buffer[lopri_idx + 1], buffer[i + 1])
    THEN LoScan(buffer, i + 1, i)
    ELSE LoScan(buffer, i + 1, lopri_idx)

lowest_priority_idx(buffer) ==
    IF Len(buffer) = 0 THEN None ELSE Some(LoScan(buffer, 1, 0))

\* Option<(oldest, youngest)> of a buffer
buffer_oldest_youngest_packets(buffer) ==
    IF Len(buffer) = 0 THEN None
    ELSE Some(<<buffer[highest_priority_idx(buffer)[1] + 1],
                buffer[lowest_priority_idx(buffer)[1] + 1]>>)

\* TRUE iff some get_edgebuffer(i, i + 1).unwrap() of the OED code panics,
\* or num_nodes - 2 underflows
NotAPath(net) ==
    \/ net.nodes < 2
    \/ \E i \in 0..(net.nodes - 2) : ~HasEdge(net, i, i + 1)

\* faulty variant: an even tie of the loads passes the criterion
oed_criterion_ge(net) ==
    [k \in 1..(net.nodes - 1) |->
        LET from_id == k - 1
            this_load == Len(Buffer(net, from_id, from_id + 1))
        IN  IF from_id < net.nodes - 2
            THEN this_load >= Len(Buffer(net, from_id + 1, from_id + 2))
            ELSE this_load > 0]


\* faulty variant: a tie of the loads passes when the load is even
oed_criterion_even_tie(net) ==
    [k \in 1..(net.nodes - 1) |->
        LET from_id == k - 1
            this_load == Len(Buffer(net, from_id, from_id + 1))
        IN  IF from_id < net.nodes - 2
            THEN LET next_load == Len(Buffer(net, from_id + 1, from_id + 2))
                 IN  this_load > next_load
                       \/ (this_load = next_load /\ this_load % 2 = 0)
            ELSE this_load > 0]


\* faulty variant: a tie of the loads never passes
oed_criterion_gt(net) ==
    [k \in 1..(net.nodes - 1) |->
        LET from_id == k - 1
            this_load == Len(Buffer(net, from_id, from_id + 1))
        IN  IF from_id < net.nodes - 2
            THEN this_load > Len(Buffer(net, from_id + 1, from_id + 2))
            ELSE this_load > 0]

\* faulty variant: the criterion asks for a load at least two above the next
oed_criterion_by_two(net) ==
    [k \in 1..(net.nodes - 1) |->
        LET from_id == k - 1
            this_load == Len(Buffer(net, from_id, from_id + 1))
        IN  IF from_id < net.nodes - 2
            THEN this_load > Len(Buffer(net, from_id + 1, from_id + 2)) + 1
            ELSE this_load > 0]

oed_criterion(net) ==
    [k \in 1..(net.nodes - 1) |->
        LET from_id == k - 1
            this_load == Len(Buffer(net, from_id, from_id + 1))
        IN  IF from_id < net.nodes - 2
            THEN LET next_load == Len(Buffer(net, from_id + 1, from_id + 2))
                 IN  this_load > next_load
                       \/ (this_load = next_load /\ this_load % 2 = 1)
            ELSE this_load > 0]

oldest_youngest(net) ==
    [k \in 1..(net.nodes - 1) |->
        buffer_oldest_youngest_packets(Buffer(net, k - 1, k))]

\* faulty variant: a non-last edge forwards on the OED criterion alone
ShouldFwdBwd_criterion_only(net, from_id) ==
    LET oed == oed_criterion(net)
        oy == oldest_youngest(net)
        this == oy[from_id + 1]
    IN  IF this = None
        THEN [panic |-> FALSE, flags |-> <<FALSE, FALSE>>]
        ELSE LET this_oldest == this[1][1]
                 this_youngest == this[1][2]
                 fwd_panic ==
                     /\ from_id # net.nodes - 2
                     /\ ~oed[from_id + 1]
                     /\ oy[from_id + 2] = None
                 should_fwd ==
                     IF from_id # net.nodes - 2
                     THEN oed[from_id + 1]
                     ELSE TRUE
                 should_bwd ==
                     IF from_id # 0
                     THEN /\ oy[from_id] # None
                          /\ ~oed[from_id]
                          /\ lis_higher_priority(oy[from_id][1][1], this_youngest)
                     ELSE FALSE
             IN  IF fwd_panic
                 THEN [panic |-> TRUE, flags |-> <<FALSE, FALSE>>]
                 ELSE [panic |-> FALSE, flags |-> <<should_fwd, should_bwd>>]

\* faulty variant: the packets of the backward test are compared
\* the other way round
ShouldFwdBwd_younger_prev(net, from_id) ==
    LET oed == oed_criterion(net)
        oy == oldest_youngest(net)
        this == oy[from_id + 1]
    IN  IF this = None
        THEN [panic |-> FALSE, flags |-> <<FALSE, FALSE>>]
        ELSE LET this_oldest == this[1][1]
                 this_youngest == this[1][2]
                 fwd_panic ==
                     /\ from_id # net.nodes - 2
                     /\ ~oed[from_id + 1]
                     /\ oy[from_id + 2] = None
                 should_fwd ==
                     IF from_id # net.nodes - 2
                     THEN oed[from_id + 1]
                            \/ lis_higher_priority(this_oldest, oy[from_id + 2][1][2])
                     ELSE TRUE
                 should_bwd ==
                     IF from_id # 0
                     THEN /\ oy[from_id] # None
                          /\ ~oed[from_id]
                          /\ lis_higher_priority(this_youngest, oy[from_id][1][1])
                     ELSE FALSE
             IN  IF fwd_panic
                 THEN [panic |-> TRUE, flags |-> <<FALSE, FALSE>>]
                 ELSE [panic |-> FALSE, flags |-> <<should_fwd, should_bwd>>]

\* faulty variant: the backward test does not read oed_criterion
ShouldFwdBwd_any_prev(net, from_id) ==
    LET oed == oed_criterion(net)
        oy == oldest_youngest(net)
        this == oy[from_id + 1]
    IN  IF this = None
        THEN [panic |-> FALSE, flags |-> <<FALSE, FALSE>>]
        ELSE LET this_oldest == this[1][1]
                 this_youngest == this[1][2]
                 fwd_panic ==
                     /\ from_id # net.nodes - 2
                     /\ ~oed[from_id + 1]
                     /\ oy[from_id + 2] = None
                 should_fwd ==
                     IF from_id # net.nodes - 2
                     THEN oed[from_id + 1]
                            \/ lis_higher_priority(this_oldest, oy[from_id + 2][1][2])
                     ELSE TRUE
                 should_bwd ==
                     IF from_id # 0
                     THEN /\ oy[from_id] # None
                          /\ lis_higher_priority(oy[from_id][1][1], this_youngest)
                     ELSE FALSE
             IN  IF fwd_panic
                 THEN [panic |-> TRUE, flags |-> <<FALSE, FALSE>>]
                 ELSE [panic |-> FALSE, flags |-> <<should_fwd, should_bwd>>]

\* one iteration of the last loop of get_should_forward_or_backward
ShouldFwdBwd(net, from_id) ==
    LET oed == oed_criterion(net)
        oy == oldest_youngest(net)
        this == oy[from_id + 1]
    IN  IF this = None
        THEN [panic |-> FALSE, flags |-> <<FALSE, FALSE>>]
        ELSE LET this_oldest == this[1][1]
                 this_youngest == this[1][2]
                 fwd_panic ==
                     /\ from_id # net.nodes - 2
                     /\ ~oed[from_id + 1]
                     /\ oy[from_id + 2] = None
                 should_fwd ==
                     IF from_id # net.nodes - 2
                     THEN oed[from_id + 1]
                            \/ lis_higher_priority(this_oldest, oy[from_id + 2][1][2])
                     ELSE TRUE
                 should_bwd ==
                     IF from_id # 0
                     THEN /\ oy[from_id] # None
                          /\ ~oed[from_id]
                          /\ lis_higher_priority(oy[from_id][1][1], this_youngest)
                     ELSE FALSE
             IN  IF fwd_panic
                 THEN [panic |-> TRUE, flags |-> <<FALSE, FALSE>>]
                 ELSE [panic |-> FALSE, flags |-> <<should_fwd, should_bwd>>]

get_should_forward_or_backward(net) ==
    IF NotAPath(net)
    THEN [panic |-> TRUE, flags |-> << >>]
    ELSE LET r == [k \in 1..(net.nodes - 1) |-> ShouldFwdBwd(net, k - 1)]
         IN  [panic |-> \E k \in 1..(net.nodes - 1) : r[k].panic,
              flags |-> [k \in 1..(net.nodes - 1) |-> r[k].flags]]

\* the body of the loop of get_packets_to_fwd_and_bwd for one from_id
MoveEdge(net, from_id, flags, result) ==
    LET to_id == from_id + 1
        b0 == Buffer(net, from_id, to_id)
    IN  IF Len(b0) = 0
        THEN [panic |-> FALSE, net |-> net, packets |-> result]
        ELSE
        LET f == IF flags[1]
                 THEN LET o_idx == highest_priority_idx(b0)[1]
                          r == increment_path_idx(b0[o_idx + 1])
                      IN  [panic |-> r.panic, buffer |-> RemoveAt(b0, o_idx),
                           packets |-> Append(result, r.packet)]
                 ELSE [panic |-> FALSE, buffer |-> b0, packets |-> result]
            b == IF flags[2] /\ ~f.panic
                 THEN LET y == lowest_priority_idx(f.buffer)
                      IN  IF y = None
                          THEN [panic |-> TRUE, buffer |-> f.buffer,
                                packets |-> f.packets]
                          ELSE LET r == decrement_path_idx(f.buffer[y[1] + 1])
                               IN  [panic |-> r.panic,
                                    buffer |-> RemoveAt(f.buffer, y[1]),
                                    packets |-> Append(f.packets, r.packet)]
                 ELSE f
        IN  [panic |-> b.panic,
             net |-> SetBuffer(net, from_id, to_id, b.buffer),
             packets |-> b.packets]


\* faulty variant: an edge flagged to forward forwards two packets when it
\* holds two
RECURSIVE MoveLoop_twice(_, _, _, _)
MoveLoop_twice(net, from_id, forward_or_backward, result) ==
    IF from_id >= net.nodes - 1
    THEN [panic |-> FALSE, net |-> net, packets |-> result]
    ELSE LET flags == forward_or_backward[from_id + 1]
             r1 == MoveEdge(net, from_id, flags, result)
             r == IF r1.panic THEN r1
                  ELSE MoveEdge(r1.net, from_id, <<flags[1], FALSE>>, r1.packets)
         IN  IF r.panic
             THEN [panic |-> TRUE, net |-> net, packets |-> result]
             ELSE MoveLoop_twice(r.net, from_id + 1, forward_or_backward,
                                 r.packets)

RECURSIVE MoveLoop(_, _, _, _)
MoveLoop(net, from_id, forward_or_backward, result) ==
    IF from_id >= net.nodes - 1
    THEN [panic |-> FALSE, net |-> net, packets |-> result]
    ELSE LET r == MoveEdge(net, from_id, forward_or_backward[from_id + 1], result)
         IN  IF r.panic
             THEN [panic |-> TRUE, net |-> r.net, packets |-> result]
             ELSE MoveLoop(r.net, from_id + 1, forward_or_backward, r.packets)

\* faulty variant: the decision of every edge is taken when its turn comes,
\* on the buffers as the moves of the edges before it have left them
RECURSIVE MoveLoopInterleaved(_, _, _)
MoveLoopInterleaved(net, from_id, result) ==
    IF from_id >= net.nodes - 1
    THEN [panic |-> FALSE, net |-> net, packets |-> result]
    ELSE LET d == ShouldFwdBwd(net, from_id)
             r == MoveEdge(net, from_id, d.flags, result)
         IN  IF d.panic \/ r.panic
             THEN [panic |-> TRUE, net |-> net, packets |-> result]
             ELSE MoveLoopInterleaved(r.net, from_id + 1, r.packets)

get_packets_to_fwd_and_bwd_interleaved(net) ==
    IF NotAPath(net)
    THEN [panic |-> TRUE, net |-> net, packets |-> << >>]
    ELSE MoveLoopInterleaved(net, 0, << >>)

get_packets_to_fwd_and_bwd(net) ==
    LET d == get_should_forward_or_backward(net)
    IN  IF d.panic
        THEN [panic |-> TRUE, net |-> net, packets |-> << >>]
        ELSE MoveLoop(net, 0, d.flags, << >>)

OEDWithSwap_forward_packets(net) ==
    LET m == get_packets_to_fwd_and_bwd(net)
    IN  IF m.panic
        THEN [panic |-> TRUE, net |-> m.net, absorbed |-> << >>]
        ELSE Replay(m.packets, m.net, << >>)

(***************************************************************************)
(* The state machine: a path network, one protocol, one packet factory.    *)
(***************************************************************************)
Protocols ==
    {OEDWithSwap_new}
      \cup {GreedyFIFO_new(c) : c \in 1..MaxCapacity}
      \cup {GreedyLIS_new(c) : c \in 1..MaxCapacity}

\* the node sequence from, from + 1, .., to
Run(from, to) == [i \in 1..(to - from + 1) |-> from + i - 1]

\* the paths handed to create_packet: every run of consecutive nodes of the
\* path network, and two paths that use an edge the network does not have
Paths(net) ==
    UNION {{Run(a, b) : b \in a..(net.nodes - 1)} : a \in 0..(net.nodes - 1)}
      \cup {<<0, 2>>, <<0, 1, 3>>}

Init ==
    /\ \E num_buffers \in 1..MaxBuffers : network = construct_path(num_buffers)
    /\ protocol \in Protocols
    /\ factory = PacketFactory_new
    /\ absorbed = << >>
    /\ issued = << >>
    /\ arg = None
    /\ pre = network
    /\ lastOp = "new"
    /\ status = "ok"
    /\ OthersIdle

\* One injection: the packet is minted by the factory and handed to
\* Protocol::add_packet (adversary and Simulation::run, or a test body).
Inject(path, injection_rd, path_idx) ==
    /\ status = "ok"
    /\ LET c == create_packet(factory, path, injection_rd, path_idx)
           r == add_packet(c.packet, network)
       IN  /\ factory' = c.factory
           /\ issued' = Append(issued, c.packet.id)
           /\ arg' = Some(c.packet)
           /\ network' = IF r.panic THEN network ELSE r.net
           /\ status' = IF r.panic THEN "panic" ELSE "ok"
    /\ pre' = network
    /\ lastOp' = "add_packet"
    /\ absorbed' = << >>
    /\ locals' = None
    /\ UNCHANGED <<protocol, others>>

AddPacket ==
    /\ factory.cur_id < MaxPackets
    /\ \E path \in Paths(network), injection_rd \in 0..MaxRd :
           \E path_idx \in 0..Len(path) :
               Inject(path, injection_rd, path_idx)

\* the effect of a forward_packets call whose outcome is r; a call that
\* panics has by then taken the packets it moves out of their buffers, and
\* r.net is the network it leaves behind
Forwarded(r) ==
    /\ network' = r.net
    /\ absorbed' = IF r.panic THEN << >> ELSE r.absorbed
    /\ status' = IF r.panic THEN "panic" ELSE "ok"
    /\ pre' = network
    /\ lastOp' = "forward_packets"
    /\ arg' = None
    /\ UNCHANGED <<protocol, factory, issued, others>>

\* the locals of a Greedy forward_packets call on net: the listing it scans
\* and the packets_to_fwd its scan collects
Greedy_locals(proto, eb_ids, net) ==
    [eb_ids |-> eb_ids,
     packets_to_fwd |-> GreedyScan(proto, eb_ids, net, << >>).packets]

ForwardGreedy ==
    /\ status = "ok"
    /\ protocol.name \in {"greedy_fifo", "greedy_lis"}
    /\ \E eb_ids \in get_edgebuffers(network) :
           /\ Forwarded(Greedy_forward_packets(protocol, eb_ids, network))
           /\ locals' = Some(Greedy_locals(protocol, eb_ids, network))

\* the locals of an OED-with-Swap forward_packets call on net: oed_criterion
\* and the result of get_should_forward_or_backward, and to_fwd_and_bwd
OED_locals(net) ==
    [oed_criterion |-> IF NotAPath(net) THEN << >> ELSE oed_criterion(net),
     forward_or_backward |-> get_should_forward_or_backward(net).flags,
     to_fwd_and_bwd |-> get_packets_to_fwd_and_bwd(net).packets]

ForwardOED ==
    /\ status = "ok"
    /\ protocol.name = "oed_swap"
    /\ Forwarded(OEDWithSwap_forward_packets(network))
    /\ locals' = Some(OED_locals(network))

Next == AddPacket \/ ForwardGreedy \/ ForwardOED

Spec == Init /\ [][Next]_vars

(***************************************************************************)
(* OED-with-Swap alone on the network construct_path(PATH_LEN), of         *)
(* PATH_LEN + 1 nodes, fed in the two ways the repository feeds it.  The   *)
(* tests of oed.rs give every packet the path (0..PATH_LEN) = 0, 1, ..,    *)
(* PATH_LEN - 1, which ends one node before the network does; the          *)
(* single-destination adversaries give it the whole path of the network.   *)
(* Either way a packet enters at any buffer but the last of the network.   *)
(***************************************************************************)
InitOED ==
    /\ network = construct_path(OEDBuffers)
    /\ protocol = OEDWithSwap_new
    /\ factory = PacketFactory_new
    /\ absorbed = << >>
    /\ issued = << >>
    /\ arg = None
    /\ pre = network
    /\ lastOp = "new"
    /\ status = "ok"
    /\ OthersIdle

\* the packet path of setup_network_and_packet_path: (0..PATH_LEN), where
\* the network construct_path(PATH_LEN) has PATH_LEN + 1 nodes
packet_path(net) == Run(0, net.nodes - 2)

AddPacketOnPath ==
    /\ factory.cur_id < OEDPackets
    /\ \E injection_rd \in 0..OEDMaxRd, path_idx \in 0..(network.nodes - 3) :
           Inject(packet_path(network), injection_rd, path_idx)

\* the injections of the single-destination adversaries of
\* adversary/path_random.rs: a packet on the whole path (0..dest_id + 1) of
\* the network, entering at a src_id that rand_int(dest_id - 1) can return,
\* its injection round being the round the caller is in
AddPacketOnWholePath ==
    /\ factory.cur_id < OEDPackets
    /\ \E injection_rd \in 0..OEDMaxRd, src_id \in 0..(network.nodes - 3) :
           Inject(Run(0, network.nodes - 1), injection_rd, src_id)

NextOED == AddPacketOnPath \/ AddPacketOnWholePath \/ ForwardOED

SpecOED == InitOED /\ [][NextOED]_vars

(***************************************************************************)
(* Vocabulary of the properties.  These definitions read the state only;   *)
(* none of them uses an operator of the protocols.                         *)
(***************************************************************************)
Edges(net) == DOMAIN net.edgebuffer_map

SeqSet(s) == {s[i] : i \in 1..Len(s)}

\* the positions of all buffers that hold a packet
Slots(net) ==
    UNION {{<<e, i>> : i \in 1..Len(net.edgebuffer_map[e])} : e \in Edges(net)}

PacketAt(net, slot) == net.edgebuffer_map[slot[1]][slot[2]]

PacketsIn(net) == {PacketAt(net, sl) : sl \in Slots(net)}

\* how often a packet with this id occurs in the buffers / in a list
OccNet(net, id) == Cardinality({sl \in Slots(net) : PacketAt(net, sl).id = id})
OccSeq(s, id) == Cardinality({i \in 1..Len(s) : s[i].id = id})

\* every edge of the path of p is an edge of the network
PathInNetwork(p, net) ==
    \A i \in 1..(Len(p.path) - 1) : <<p.path[i], p.path[i + 1]>> \in Edges(net)

\* a forward_packets call has just returned
Forwarded_ok == lastOp = "forward_packets" /\ status = "ok"

\* P has strictly higher priority than Q, as the documentation words it
Older(p, q) ==
    \/ p.injection_rd < q.injection_rd
    \/ (p.injection_rd = q.injection_rd /\ p.id < q.id)

\* the packets of the network and of the returned list after the call
Now == PacketsIn(network) \cup SeqSet(absorbed)

(***************************************************************************)
(* C1                                                                      *)
(***************************************************************************)
\* C1: when one packet is alone in a network that has every edge of its
\* path, a forward_packets call of any protocol moves it one hop; it is
\* returned as absorbed exactly by the call that brings its cursor to the
\* last index k of its path, after which no buffer holds it, and by no
\* earlier call.
C1_AbsorbedExactlyAtLastNode ==
    (lastOp = "forward_packets" /\ Cardinality(Slots(pre)) = 1) =>
        \A sl \in Slots(pre) :
            LET p == PacketAt(pre, sl)
                k == Len(p.path) - 1
                q == [p EXCEPT !.path_idx = p.path_idx + 1]
            IN  PathInNetwork(p, pre) =>
                  /\ status = "ok"
                  /\ IF q.path_idx = k
                     THEN absorbed = <<q>> /\ Slots(network) = {}
                     ELSE /\ absorbed = << >>
                          /\ Cardinality(Slots(network)) = 1
                          /\ \A t \in Slots(network) :
                                /\ PacketAt(network, t) = q
                                /\ t[1] = <<p.path[q.path_idx + 1],
                                            p.path[q.path_idx + 2]>>

\* a lone packet of a 3-node path was returned by the call that brought its
\* cursor to 2
C1_Witness ==
    /\ Forwarded_ok
    /\ Cardinality(Slots(pre)) = 1
    /\ Len(absorbed) = 1
    /\ Len(absorbed[1].path) = 3
    /\ absorbed[1].path_idx = 2

(***************************************************************************)
(* C2                                                                      *)
(***************************************************************************)
\* C2: after a forward_packets call every packet that was in a buffer before
\* the call is in exactly one place, one buffer or the returned list, with
\* its id, path and injection round; nothing else is in the network or in
\* the list.
C2_PacketConservation ==
    Forwarded_ok =>
        /\ \A p \in PacketsIn(pre) :
              /\ OccNet(network, p.id) + OccSeq(absorbed, p.id) = 1
              /\ \A q \in Now :
                    q.id = p.id =>
                        q.path = p.path /\ q.injection_rd = p.injection_rd
        /\ \A q \in Now : \E p \in PacketsIn(pre) : p.id = q.id

\* a call that returned one packet and kept another in a buffer
C2_Witness ==
    /\ Forwarded_ok
    /\ Cardinality(Slots(pre)) >= 2
    /\ Len(absorbed) >= 1
    /\ Slots(network) # {}

(***************************************************************************)
(* C6                                                                      *)
(***************************************************************************)
\* the packets of the buffer of edge e before the call that the call took
\* out of it
Removed(e) ==
    {p \in SeqSet(pre.edgebuffer_map[e]) :
        \A q \in SeqSet(network.edgebuffer_map[e]) : q.id # p.id}

\* C6: a forward_packets call of Greedy-FIFO or Greedy-LIS with capacity c
\* removes exactly min(c, load) packets from every buffer, load being the
\* length of the buffer at the start of the call.
C6_GreedyCapacity ==
    (Forwarded_ok /\ protocol.name \in {"greedy_fifo", "greedy_lis"}) =>
        \A e \in Edges(pre) :
            LET load == Len(pre.edgebuffer_map[e])
            IN  Cardinality(Removed(e)) =
                    (IF protocol.capacity < load THEN protocol.capacity ELSE load)

\* a buffer held more packets than the capacity and kept one
C6_Witness ==
    /\ Forwarded_ok
    /\ protocol.name = "greedy_lis"
    /\ \E e \in Edges(pre) :
          /\ Len(pre.edgebuffer_map[e]) > protocol.capacity
          /\ Cardinality(Removed(e)) = protocol.capacity
          /\ Len(network.edgebuffer_map[e]) >= 1

(***************************************************************************)
(* C7                                                                      *)
(***************************************************************************)
\* the network is pre with packet p appended to the buffer of the edge from
\* path[cursor] to path[cursor + 1], and nothing else changed
AppendedAtCurrentEdge(p) ==
    LET e == <<p.path[p.path_idx + 1], p.path[p.path_idx + 2]>>
    IN  /\ status = "ok"
        /\ network.nodes = pre.nodes
        /\ Edges(network) = Edges(pre)
        /\ network.edgebuffer_map[e] = Append(pre.edgebuffer_map[e], p)
        /\ \A d \in Edges(pre) \ {e} :
              network.edgebuffer_map[d] = pre.edgebuffer_map[d]

\* C7 as claimed: add_packet succeeds for every packet with
\* cursor < len(path) whose path edges all exist, and appends it to the back
\* of the buffer of the edge (current_node, next_node).
C7_AddPacketNotAbsorbed ==
    (lastOp = "add_packet" /\ arg # None) =>
        LET p == arg[1]
        IN  (p.path_idx < Len(p.path) /\ PathInNetwork(p, pre)) =>
                AppendedAtCurrentEdge(p)

\* C7 (amended): add_packet succeeds for every packet with
\* cursor < len(path) - 1, that is with a current and a next node, whose
\* path edges all exist; it appends the packet to the back of the buffer of
\* the edge (current_node, next_node) and leaves every other buffer as it
\* was.  For a packet with cursor = len(path) - 1, which is not absorbed
\* but has no next node, the call fails fatally and has changed nothing.
C7_AddPacketWithNextNode ==
    (lastOp = "add_packet" /\ arg # None) =>
        LET p == arg[1]
        IN  /\ (p.path_idx + 1 < Len(p.path) /\ PathInNetwork(p, pre)) =>
                  AppendedAtCurrentEdge(p)
            /\ (p.path_idx + 1 = Len(p.path) /\ PathInNetwork(p, pre)) =>
                  (status = "panic" /\ network = pre)

\* a packet with a next node was appended behind a packet that was already
\* in the buffer
C7_Witness ==
    /\ lastOp = "add_packet"
    /\ status = "ok"
    /\ arg # None
    /\ arg[1].path_idx + 1 < Len(arg[1].path)
    /\ PathInNetwork(arg[1], pre)
    /\ \E e \in Edges(network) :
          /\ Len(pre.edgebuffer_map[e]) >= 1
          /\ network.edgebuffer_map[e] = Append(pre.edgebuffer_map[e], arg[1])

(***************************************************************************)
(* C8                                                                      *)
(***************************************************************************)
\* C8: every packet of the list returned by forward_packets has
\* cursor = len(path), and no packet left in a buffer has.
C8_ReturnedAreAbsorbed ==
    Forwarded_ok =>
        /\ \A p \in SeqSet(absorbed) : p.path_idx = Len(p.path)
        /\ \A p \in PacketsIn(network) : p.path_idx # Len(p.path)

(***************************************************************************)
(* C10                                                                     *)
(***************************************************************************)
\* C10: the ids a factory issues are 0, 1, 2, .. in call order, whatever the
\* other arguments of create_packet: strictly increasing, so never repeated.
C10_FactoryIds ==
    /\ \A i \in 1..Len(issued) : issued[i] = i - 1
    /\ \A i, j \in 1..Len(issued) : i < j => issued[i] < issued[j]
    /\ factory.cur_id = Len(issued)

\* the factory has minted every packet of the run, the last one with a
\* non-zero cursor and round
C10_Witness ==
    /\ Len(issued) = MaxPackets
    /\ arg # None
    /\ arg[1].id = MaxPackets - 1
    /\ arg[1].path_idx > 0
    /\ arg[1].injection_rd > 0

(***************************************************************************)
(* The decisions of an OED-with-Swap call, read off the network as it was  *)
(* at the start of the call (pre), edge i being the edge from i to i + 1.  *)
(***************************************************************************)
LastEdge == pre.nodes - 2

SnapBuf(i) == pre.edgebuffer_map[<<i, i + 1>>]
SnapLoad(i) == Len(SnapBuf(i))

\* the packet of a non-empty edge i that is older / younger than all others
SnapOldest(i) ==
    CHOOSE p \in SeqSet(SnapBuf(i)) :
        \A q \in SeqSet(SnapBuf(i)) \ {p} : Older(p, q)
SnapYoungest(i) ==
    CHOOSE p \in SeqSet(SnapBuf(i)) :
        \A q \in SeqSet(SnapBuf(i)) \ {p} : Older(q, p)

SnapOED(i) ==
    IF i = LastEdge THEN SnapLoad(i) > 0
    ELSE \/ SnapLoad(i) > SnapLoad(i + 1)
         \/ (SnapLoad(i) = SnapLoad(i + 1) /\ SnapLoad(i) % 2 = 1)

SnapForward(i) ==
    /\ SnapLoad(i) > 0
    /\ \/ i = LastEdge
       \/ SnapOED(i)
       \/ Older(SnapOldest(i), SnapYoungest(i + 1))

SnapBackward(i) ==
    /\ SnapLoad(i) > 0
    /\ i > 0
    /\ SnapLoad(i - 1) > 0
    /\ ~SnapOED(i - 1)
    /\ Older(SnapOldest(i - 1), SnapYoungest(i))

\* the packets of edge i at the start of the call that the call moved one
\* hop forward / one hop backward / left where they were
MovedForward(i) ==
    {p \in SeqSet(SnapBuf(i)) :
        \E q \in Now : q.id = p.id /\ q.path_idx = p.path_idx + 1}
MovedBackward(i) ==
    {p \in SeqSet(SnapBuf(i)) :
        \E q \in Now : q.id = p.id /\ q.path_idx = p.path_idx - 1}
Stayed(i) ==
    {p \in SeqSet(SnapBuf(i)) : p \in SeqSet(network.edgebuffer_map[<<i, i + 1>>])}

OED_ok == Forwarded_ok /\ protocol.name = "oed_swap"

\* the packets with injection round r in a buffer
OfRound(buffer, r) == {p \in SeqSet(buffer) : p.injection_rd = r}

(***************************************************************************)
(* C3                                                                      *)
(***************************************************************************)
\* C3: in an OED-with-Swap call every edge forwards and sends backward
\* exactly what the loads and the oldest and youngest packets of the state
\* at the start of the call decide; no move applied earlier in the same call
\* changes the decision or the packet of another edge.
C3_DecisionsFromSnapshot ==
    OED_ok =>
        \A i \in 0..LastEdge :
            /\ MovedForward(i) =
                   (IF SnapForward(i) THEN {SnapOldest(i)} ELSE {})
            /\ MovedBackward(i) =
                   (IF SnapBackward(i) THEN {SnapYoungest(i)} ELSE {})

\* edge 0 forwarded its only packet and edge 1 still sent its youngest
\* packet backward: the move of edge 0 emptied the buffer that the decision
\* of edge 1 depends on
C3_Witness ==
    /\ OED_ok
    /\ SnapLoad(0) = 1
    /\ MovedForward(0) # {}
    /\ MovedBackward(1) # {}

(***************************************************************************)
(* C4                                                                      *)
(***************************************************************************)
\* scenario C: rounds {0, 1} in edge (0,1), rounds {1, 2} in edge (1,2),
\* every other edge empty, at the start of an OED-with-Swap call
ScenarioC ==
    /\ OED_ok
    /\ pre.nodes >= 3
    /\ SnapLoad(0) = 2 /\ SnapLoad(1) = 2
    /\ \A i \in 2..LastEdge : SnapLoad(i) = 0
    /\ OfRound(SnapBuf(0), 0) # {} /\ OfRound(SnapBuf(0), 1) # {}
    /\ OfRound(SnapBuf(1), 1) # {} /\ OfRound(SnapBuf(1), 2) # {}

\* the round-2 packet of edge (1,2) is now in edge (0,1) and the round-0
\* packet of edge (0,1) is now in edge (1,2)
ScenarioCSwap ==
    /\ \A p \in OfRound(SnapBuf(1), 2) :
          \E q \in SeqSet(network.edgebuffer_map[<<0, 1>>]) : q.id = p.id
    /\ \A p \in OfRound(SnapBuf(0), 0) :
          \E q \in SeqSet(network.edgebuffer_map[<<1, 2>>]) : q.id = p.id

\* C4 as claimed: in scenario C the round-2 packet moves backward, the
\* round-0 packet moves forward and the round-1 packet of edge (1,2) stays in
\* edge (1,2).
C4_EvenSwapOldestStays ==
    ScenarioC =>
        /\ ScenarioCSwap
        /\ \A p \in OfRound(SnapBuf(1), 1) :
              \E q \in SeqSet(network.edgebuffer_map[<<1, 2>>]) : q.id = p.id

\* C4 (amended): in scenario C the round-2 packet of edge (1,2) moves
\* backward into edge (0,1), the round-0 packet of edge (0,1) moves forward
\* into edge (1,2), the round-1 packet of edge (0,1) stays, and the round-1
\* packet of edge (1,2) is forwarded out of it: into edge (2,3), or into the
\* returned list when node 2 ends its path.
C4_EvenSwapOldestForwarded ==
    ScenarioC =>
        /\ ScenarioCSwap
        /\ \A p \in OfRound(SnapBuf(0), 1) :
              p \in SeqSet(network.edgebuffer_map[<<0, 1>>])
        /\ \A p \in OfRound(SnapBuf(1), 1) :
              /\ \A q \in SeqSet(network.edgebuffer_map[<<1, 2>>]) : q.id # p.id
              /\ IF p.path_idx + 2 < Len(p.path)
                 THEN \E q \in SeqSet(network.edgebuffer_map[<<2, 3>>]) : q.id = p.id
                 ELSE \E q \in SeqSet(absorbed) : q.id = p.id

\* scenario C has been run on a network that has an edge (2,3)
C4_Witness ==
    /\ ScenarioC
    /\ pre.nodes >= 4
    /\ Len(network.edgebuffer_map[<<0, 1>>]) = 2
    /\ Len(network.edgebuffer_map[<<2, 3>>]) = 1

(***************************************************************************)
(* C5                                                                      *)
(***************************************************************************)
\* scenario B: rounds {0, 1} in edge (0,1), every other edge empty, at the
\* start of an OED-with-Swap call on a network that has an edge (1,2)
ScenarioB ==
    /\ OED_ok
    /\ pre.nodes >= 3
    /\ SnapLoad(0) = 2
    /\ \A i \in 1..LastEdge : SnapLoad(i) = 0
    /\ OfRound(SnapBuf(0), 0) # {} /\ OfRound(SnapBuf(0), 1) # {}

\* C5: an edge that forwards under OED-with-Swap forwards one packet, the
\* one with the smallest injection round and, among those, the smallest id
\* of the packets it held at the start of the call; its other packets stay
\* in it, but for the one it sends backward.  In scenario B the round-0
\* packet ends in edge (1,2) and the round-1 packet is still in edge (0,1).
C5_OldestForwardsFirst ==
    /\ OED_ok =>
          \A i \in 0..LastEdge :
              /\ Cardinality(MovedForward(i)) <= 1
              /\ Cardinality(MovedBackward(i)) <= 1
              /\ \A p \in MovedForward(i) :
                    \A q \in SeqSet(SnapBuf(i)) \ {p} :
                        \/ p.injection_rd < q.injection_rd
                        \/ (p.injection_rd = q.injection_rd /\ p.id < q.id)
              /\ \A q \in SeqSet(SnapBuf(i)) :
                    q \in MovedForward(i) \cup MovedBackward(i) \cup Stayed(i)
    /\ ScenarioB =>
          /\ \A p \in OfRound(SnapBuf(0), 0) :
                p.path_idx + 2 < Len(p.path) =>
                    \E q \in SeqSet(network.edgebuffer_map[<<1, 2>>]) : q.id = p.id
          /\ \A p \in OfRound(SnapBuf(0), 1) : p \in Stayed(0)

\* scenario B has been run with the round-1 packet at the front of the
\* buffer, and the round-0 packet behind it went on to edge (1,2)
C5_Witness ==
    /\ ScenarioB
    /\ SnapBuf(0)[1].injection_rd = 1
    /\ SnapBuf(0)[2].injection_rd = 0
    /\ Len(network.edgebuffer_map[<<1, 2>>]) = 1
    /\ network.edgebuffer_map[<<1, 2>>][1].id = SnapBuf(0)[2].id

(***************************************************************************)
(* C9                                                                      *)
(***************************************************************************)
\* C9: lis_higher_priority(P, Q) holds iff P has the smaller injection
\* round, or the same round and the smaller id; on packets with distinct ids
\* it is a strict total order.
C9_PriorityStrictTotalOrder ==
    LET S == Now
    IN  /\ \A p, q \in S :
              lis_higher_priority(p, q) <=>
                  \/ p.injection_rd < q.injection_rd
                  \/ (p.injection_rd = q.injection_rd /\ p.id < q.id)
        /\ \A p \in S : ~lis_higher_priority(p, p)
        /\ \A p, q \in S :
              ~(lis_higher_priority(p, q) /\ lis_higher_priority(q, p))
        /\ \A p, q, r \in S :
              (lis_higher_priority(p, q) /\ lis_higher_priority(q, r))
                  => lis_higher_priority(p, r)
        /\ \A p, q \in S :
              p.id # q.id =>
                  (lis_higher_priority(p, q) \/ lis_higher_priority(q, p))

\* three packets are compared: two of one round, and a third that is older
\* by its round though its id is larger
C9_Witness ==
    \E p, q, r \in PacketsIn(network) :
        /\ p.id < q.id /\ q.id < r.id
        /\ p.injection_rd = q.injection_rd
        /\ r.injection_rd < p.injection_rd

(***************************************************************************)
(* The packet operations alone: one packet is created with any path and    *)
(* any cursor, then advanced and retreated in any order                    *)
(* (tests::test_iter_through_path of packet.rs).                           *)
(***************************************************************************)
InitPacket ==
    /\ network = Network_new
    /\ protocol = None
    /\ factory = PacketFactory_new
    /\ absorbed = << >>
    /\ issued = << >>
    /\ arg = None
    /\ pre = None
    /\ lastOp = "new"
    /\ status = "ok"
    /\ OthersIdle

CreatePacket ==
    /\ status = "ok"
    /\ packet = None
    /\ \E len \in 0..PktMaxLen, injection_rd \in 0..MaxRd,
          path_idx \in 0..PktMaxIdx :
           LET c == create_packet(factory, Run(0, len - 1), injection_rd,
                                  path_idx)
           IN  /\ packet' = Some(c.packet)
               /\ pre' = Some(c.packet)
               /\ factory' = c.factory
               /\ issued' = Append(issued, c.packet.id)
    /\ arg' = None
    /\ lastOp' = "create_packet"
    /\ ret' = None
    /\ UNCHANGED <<network, protocol, absorbed, status>>
    /\ UNCHANGED <<hash, added, pc, rd, threshold, adversary, recorders,
                   trace, locals>>

\* the effect on the packet of a call of outcome r
PacketCall(op, r) ==
    /\ arg' = packet
    /\ packet' = IF r.panic THEN packet ELSE Some(r.packet)
    /\ status' = IF r.panic THEN "panic" ELSE "ok"
    /\ lastOp' = op
    /\ ret' = None
    /\ UNCHANGED <<network, protocol, factory, absorbed, issued, pre>>
    /\ UNCHANGED <<hash, added, pc, rd, threshold, adversary, recorders,
                   trace, locals>>

IncrementPathIdx ==
    /\ status = "ok"
    /\ packet # None
    /\ packet[1].path_idx < PktMaxIdx
    /\ PacketCall("increment_path_idx", increment_path_idx(packet[1]))

DecrementPathIdx ==
    /\ status = "ok"
    /\ packet # None
    /\ PacketCall("decrement_path_idx", decrement_path_idx(packet[1]))

\* p.dist_to_go(): the packet is read only; ret keeps the value returned
DistToGo ==
    /\ status = "ok"
    /\ packet # None
    /\ \E r \in dist_to_go(packet[1]) :
           /\ ret' = Some(r.value)
           /\ status' = IF r.panic THEN "panic" ELSE "ok"
    /\ arg' = packet
    /\ lastOp' = "dist_to_go"
    /\ UNCHANGED <<network, protocol, factory, absorbed, issued, pre, packet>>
    /\ UNCHANGED <<hash, added, pc, rd, threshold, adversary, recorders,
                   trace, locals>>

NextPacket ==
    \/ CreatePacket
    \/ IncrementPathIdx
    \/ DecrementPathIdx
    \/ DistToGo

SpecPacket == InitPacket /\ [][NextPacket]_vars

(***************************************************************************)
(* C11                                                                     *)
(***************************************************************************)
\* C11: advance adds exactly 1 to the cursor of a packet whose cursor is not
\* len(path) and panics, the packet unchanged, when the cursor is len(path);
\* retreat subtracts exactly 1 when the cursor is above 0 and panics, the
\* packet unchanged, when it is 0.  A packet created at cursor 0 of a path
\* of 4 nodes is therefore absorbed after four advances, and the fifth
\* panics.
C11_AdvanceRetreat ==
    /\ lastOp = "increment_path_idx" =>
          LET p == arg[1]
              q == packet[1]
          IN  IF p.path_idx = Len(p.path)
              THEN status = "panic" /\ q = p
              ELSE /\ status = "ok"
                   /\ q.path_idx = p.path_idx + 1
                   /\ q = [p EXCEPT !.path_idx = q.path_idx]
    /\ lastOp = "decrement_path_idx" =>
          LET p == arg[1]
              q == packet[1]
          IN  IF p.path_idx = 0
              THEN status = "panic" /\ q = p
              ELSE /\ status = "ok"
                   /\ q.path_idx = p.path_idx - 1
                   /\ q = [p EXCEPT !.path_idx = q.path_idx]
    /\ (/\ lastOp = "increment_path_idx"
        /\ Len(arg[1].path) = 4
        /\ pre[1].path_idx = 0)
          => /\ (arg[1].path_idx < 4 => status = "ok")
             /\ (arg[1].path_idx = 3 => packet[1].path_idx = Len(packet[1].path))
             /\ (arg[1].path_idx = 4 => status = "panic")

\* the fifth advance of a packet created at cursor 0 of a 4-node path
C11_Witness ==
    /\ lastOp = "increment_path_idx"
    /\ status = "panic"
    /\ pre[1].path_idx = 0
    /\ Len(pre[1].path) = 4
    /\ arg[1].path_idx = 4
    /\ packet[1].path_idx = 4

(***************************************************************************)
(* C12                                                                     *)
(***************************************************************************)
\* C12: every packet made by create_packet and changed by advance and
\* retreat only has 0 <= cursor <= len(path), also right after its creation.
C12_CursorInvariant ==
    packet # None =>
        /\ 0 <= packet[1].path_idx
        /\ packet[1].path_idx <= Len(packet[1].path)

(***************************************************************************)
(* network.rs, the rest of the interface.  Every Node keeps its edge       *)
(* buffers in a HashMap keyed by the to-node; h[n + 1] is the order in     *)
(* which the map of node n yields its keys.  That order is a property of   *)
(* the hash table: an insertion may leave the new key anywhere and, when   *)
(* the table grows, reorder the others.                                    *)
(***************************************************************************)
\* the enumerations without repetition of the finite set S
Perms(S) ==
    {q \in [1..Cardinality(S) -> S] :
        \A i, j \in 1..Cardinality(S) : i # j => q[i] # q[j]}

\* the iteration orders the map of a node can have after insert(to_id, ..)
HashInsert(keys, to_id) == Perms(SeqSet(keys) \cup {to_id})

\* faulty variant: an edge is listed from both of its ends
get_neighbors_undirected(net, h, node_id) ==
    IF check_node_id(net, node_id)
    THEN [panic |-> TRUE, value |-> << >>]
    ELSE [panic |-> FALSE,
          value |-> h[node_id + 1] \o
                    (CHOOSE q \in Perms({f \in 0..(net.nodes - 1) :
                                            /\ HasEdge(net, f, node_id)
                                            /\ ~HasEdge(net, node_id, f)}) :
                        TRUE)]

get_neighbors(net, h, node_id) ==
    IF check_node_id(net, node_id)
    THEN [panic |-> TRUE, value |-> << >>]
    ELSE [panic |-> FALSE, value |-> h[node_id + 1]]

RECURSIVE EdgebuffersFrom(_, _, _, _)
EdgebuffersFrom(net, h, from_id, result) ==
    IF from_id >= net.nodes THEN result
    ELSE LET nb == get_neighbors(net, h, from_id).value
         IN  EdgebuffersFrom(net, h, from_id + 1,
                 result \o [i \in 1..Len(nb) |-> <<from_id, nb[i]>>])

\* faulty variant: the loop over the from-nodes starts at node 1
get_edgebuffers_from_one(net, h) == EdgebuffersFrom(net, h, 1, << >>)

\* get_edgebuffers on a network whose maps iterate in the orders h
get_edgebuffers_in_order(net, h) == EdgebuffersFrom(net, h, 0, << >>)

\* faulty variant: the buffer is returned and also left in place
take_buffer_copy(net, from_id, to_id) ==
    IF check_node_id(net, from_id) \/ check_node_id(net, to_id)
    THEN [panic |-> TRUE, net |-> net, buffer |-> None]
    ELSE IF HasEdge(net, from_id, to_id)
    THEN [panic |-> FALSE, net |-> net,
          buffer |-> Some(Buffer(net, from_id, to_id))]
    ELSE [panic |-> FALSE, net |-> net, buffer |-> None]

take_buffer(net, from_id, to_id) ==
    IF check_node_id(net, from_id) \/ check_node_id(net, to_id)
    THEN [panic |-> TRUE, net |-> net, buffer |-> None]
    ELSE IF HasEdge(net, from_id, to_id)
    THEN [panic |-> FALSE, net |-> SetBuffer(net, from_id, to_id, << >>),
          buffer |-> Some(Buffer(net, from_id, to_id))]
    ELSE [panic |-> FALSE, net |-> net, buffer |-> None]

\* Network::add_packet
Network_add_packet(net, p, from_id, to_id) ==
    LET r == get_edgebuffer(net, from_id, to_id)
    IN  IF r.panic \/ r.eb = None
        THEN [panic |-> TRUE, net |-> net]
        ELSE [panic |-> FALSE,
              net |-> SetBuffer(net, from_id, to_id, Append(r.eb[1], p))]

(***************************************************************************)
(* The Network interface alone: a network is built node by node and edge   *)
(* by edge, packets are pushed into its buffers and taken out of them, and *)
(* it is queried, with node ids that exist and node ids that do not (the   *)
(* tests of network.rs).                                                   *)
(***************************************************************************)
InitNet ==
    /\ network = Network_new
    /\ protocol = None
    /\ factory = PacketFactory_new
    /\ absorbed = << >>
    /\ issued = << >>
    /\ arg = None
    /\ pre = network
    /\ lastOp = "new"
    /\ status = "ok"
    /\ OthersIdle

\* the node ids the calls are made with: every node and one id past them
Ids == 0..network.nodes

\* the effect of a call op(args) that panics or leaves the network net and
\* returns value
NetCall(op, args, panic, net, value) ==
    /\ lastOp' = op
    /\ pre' = network
    /\ ret' = Some([args |-> args, value |-> value])
    /\ status' = IF panic THEN "panic" ELSE "ok"
    /\ network' = IF panic THEN network ELSE net
    /\ UNCHANGED <<protocol, absorbed, packet, pc, rd, threshold, adversary,
                   recorders, trace, locals>>

AddNode ==
    /\ status = "ok"
    /\ network.nodes < NetMaxNodes
    /\ NetCall("add_node", << >>, FALSE, add_node(network), network.nodes)
    /\ hash' = Append(hash, << >>)
    /\ UNCHANGED <<added, factory, issued, arg>>

AddEdgebuffer ==
    /\ status = "ok"
    /\ Len(added) < NetMaxEdges
    /\ \E from_id \in Ids, to_id \in Ids :
           LET r == add_edgebuffer(network, from_id, to_id)
           IN  /\ NetCall("add_edgebuffer", <<from_id, to_id>>, r.panic, r.net,
                          None)
               /\ IF r.panic
                  THEN UNCHANGED <<hash, added>>
                  ELSE /\ \E keys \in HashInsert(hash[from_id + 1], to_id) :
                              hash' = [hash EXCEPT ![from_id + 1] = keys]
                       /\ added' = Append(added, <<from_id, to_id>>)
    /\ UNCHANGED <<factory, issued, arg>>

GetNeighbors ==
    /\ status = "ok"
    /\ \E node_id \in Ids :
           LET r == get_neighbors(network, hash, node_id)
           IN  NetCall("get_neighbors", <<node_id>>, r.panic, network, r.value)
    /\ UNCHANGED <<hash, added, factory, issued, arg>>

GetEdgebuffers ==
    /\ status = "ok"
    /\ NetCall("get_edgebuffers", << >>, FALSE, network,
               get_edgebuffers_in_order(network, hash))
    /\ UNCHANGED <<hash, added, factory, issued, arg>>

GetEdgebuffer ==
    /\ status = "ok"
    /\ \E from_id \in Ids, to_id \in Ids :
           LET r == get_edgebuffer(network, from_id, to_id)
           IN  \E op \in {"get_edgebuffer", "get_edgebuffer_mut"} :
                  NetCall(op, <<from_id, to_id>>, r.panic, network, r.eb)
    /\ UNCHANGED <<hash, added, factory, issued, arg>>

TakeBuffer ==
    /\ status = "ok"
    /\ \E from_id \in Ids, to_id \in Ids :
           LET r == take_buffer(network, from_id, to_id)
           IN  NetCall("take_buffer", <<from_id, to_id>>, r.panic, r.net,
                       r.buffer)
    /\ UNCHANGED <<hash, added, factory, issued, arg>>

\* a packet as the tests of network.rs make it, pushed into a buffer
NetworkAddPacket ==
    /\ status = "ok"
    /\ factory.cur_id < NetMaxPackets
    /\ \E from_id \in Ids, to_id \in Ids :
           LET c == create_packet(factory, << >>, 0, 0)
               r == Network_add_packet(network, c.packet, from_id, to_id)
           IN  /\ NetCall("Network_add_packet", <<from_id, to_id>>, r.panic,
                          r.net, None)
               /\ factory' = c.factory
               /\ issued' = Append(issued, c.packet.id)
               /\ arg' = Some(c.packet)
    /\ UNCHANGED <<hash, added>>

NextNet ==
    \/ AddNode
    \/ AddEdgebuffer
    \/ GetNeighbors
    \/ GetEdgebuffers
    \/ GetEdgebuffer
    \/ TakeBuffer
    \/ NetworkAddPacket

SpecNet == InitNet /\ [][NextNet]_vars

(***************************************************************************)
(* Vocabulary of the properties of the Network interface: the last call.   *)
(***************************************************************************)
Args == ret[1].args
Value == ret[1].value
NetCalled(op) == lastOp = op /\ ret # None

\* the buffers of net other than the one of edge e are those of pre
SameButEdge(net, e) ==
    /\ net.nodes = pre.nodes
    /\ DOMAIN net.edgebuffer_map \ {e} = DOMAIN pre.edgebuffer_map \ {e}
    /\ \A f \in DOMAIN pre.edgebuffer_map \ {e} :
           net.edgebuffer_map[f] = pre.edgebuffer_map[f]

(***************************************************************************)
(* C13                                                                     *)
(***************************************************************************)
\* C13: add_edgebuffer(from, to) panics when from or to is not a node or the
\* pair already has a buffer, and then the network is as before the call;
\* otherwise it adds one empty buffer for (from, to) and changes nothing
\* else.  No pair is ever added twice.
C13_AddEdgebuffer ==
    /\ NetCalled("add_edgebuffer") =>
          LET e == <<Args[1], Args[2]>>
          IN  IF \/ Args[1] >= pre.nodes
                 \/ Args[2] >= pre.nodes
                 \/ e \in DOMAIN pre.edgebuffer_map
              THEN status = "panic" /\ network = pre
              ELSE /\ status = "ok"
                   /\ e \in DOMAIN network.edgebuffer_map
                   /\ network.edgebuffer_map[e] = << >>
                   /\ SameButEdge(network, e)
    /\ \A i, j \in 1..Len(added) : i # j => added[i] # added[j]
    /\ SeqSet(added) = DOMAIN network.edgebuffer_map

\* a second add_edgebuffer for a pair whose buffer holds a packet
C13_Witness ==
    /\ NetCalled("add_edgebuffer")
    /\ status = "panic"
    /\ Args[1] < pre.nodes /\ Args[2] < pre.nodes
    /\ <<Args[1], Args[2]>> \in DOMAIN pre.edgebuffer_map
    /\ Len(pre.edgebuffer_map[<<Args[1], Args[2]>>]) >= 1
    /\ Len(network.edgebuffer_map[<<Args[1], Args[2]>>]) >= 1

(***************************************************************************)
(* C14                                                                     *)
(***************************************************************************)
\* C14: get_neighbors(n) lists, each once, exactly the nodes t for which
\* add_edgebuffer(n, t) succeeded; an edge (a, b) does not put a among the
\* neighbors of b.
C14_Neighbors ==
    NetCalled("get_neighbors") /\ status = "ok" =>
        /\ SeqSet(Value) = {t \in 0..(network.nodes - 1) :
                               \E i \in 1..Len(added) :
                                   added[i] = <<Args[1], t>>}
        /\ \A i, j \in 1..Len(Value) : i # j => Value[i] # Value[j]

\* the neighbors of b after the edges (a, b) and (b, c), a # b, were added
C14_Witness ==
    /\ NetCalled("get_neighbors")
    /\ status = "ok"
    /\ Len(Value) = 1
    /\ \E a \in 0..(network.nodes - 1) :
          /\ a # Args[1]
          /\ a # Value[1]
          /\ <<a, Args[1]>> \in SeqSet(added)

(***************************************************************************)
(* C15                                                                     *)
(***************************************************************************)
\* the edges by from-node ascending and, within a from-node, in the order
\* in which add_edgebuffer added them
RECURSIVE InsertionListing(_)
InsertionListing(from_id) ==
    IF from_id >= network.nodes THEN << >>
    ELSE SelectSeq(added, LAMBDA e : e[1] = from_id)
             \o InsertionListing(from_id + 1)

\* C15 as stated: get_edgebuffers returns every edge once, by from-node
\* ascending and within one from-node in the order the buffers were added.
C15_EdgebuffersInInsertionOrder ==
    NetCalled("get_edgebuffers") => Value = InsertionListing(0)

\* C15, amended: get_edgebuffers returns every edge exactly once, by
\* from-node ascending, in an order within one from-node that need not be
\* the order of insertion; two calls in a row return the same sequence.
C15_EdgebuffersGrouped ==
    /\ [](NetCalled("get_edgebuffers") =>
            /\ SeqSet(Value) = DOMAIN network.edgebuffer_map
            /\ Len(Value) = Cardinality(DOMAIN network.edgebuffer_map)
            /\ \A i, j \in 1..Len(Value) : i < j => Value[i][1] <= Value[j][1])
    /\ [][NetCalled("get_edgebuffers") /\ lastOp' = "get_edgebuffers"
             => ret' = ret]_vars

\* a listing of two edges of one from-node against their insertion order
C15_Witness ==
    /\ NetCalled("get_edgebuffers")
    /\ Len(Value) = 2
    /\ Value[1][1] = Value[2][1]
    /\ Value # InsertionListing(0)

(***************************************************************************)
(* C16                                                                     *)
(***************************************************************************)
Lookups == {"get_edgebuffer", "get_edgebuffer_mut", "take_buffer"}

\* C16 as stated: a lookup for any pair without an edge returns None, does
\* not panic and leaves the network alone; for an edge with an empty buffer
\* it returns the empty buffer.
C16_MissingBufferAbsent ==
    lastOp \in Lookups /\ ret # None =>
        LET e == <<Args[1], Args[2]>>
        IN  IF e \notin DOMAIN pre.edgebuffer_map
            THEN status = "ok" /\ Value = None /\ network = pre
            ELSE pre.edgebuffer_map[e] = << >> => Value = Some(<< >>)

\* C16, amended: a lookup for a pair of existing nodes without an edge
\* returns None, does not panic and leaves the network alone; for an edge
\* with an empty buffer it returns the empty buffer; with an id that is not
\* a node it panics and leaves the network alone.
C16_MissingBufferAbsentBetweenNodes ==
    lastOp \in Lookups /\ ret # None =>
        LET e == <<Args[1], Args[2]>>
        IN  IF Args[1] >= pre.nodes \/ Args[2] >= pre.nodes
            THEN status = "panic" /\ network = pre
            ELSE IF e \notin DOMAIN pre.edgebuffer_map
            THEN status = "ok" /\ Value = None /\ network = pre
            ELSE pre.edgebuffer_map[e] = << >> =>
                     status = "ok" /\ Value = Some(<< >>) /\ network = pre

\* a lookup between two nodes of a network that has an edge with a packet,
\* but none between these two
C16_Witness ==
    /\ lastOp \in Lookups /\ ret # None
    /\ status = "ok"
    /\ Args[1] < pre.nodes /\ Args[2] < pre.nodes
    /\ <<Args[1], Args[2]>> \notin DOMAIN pre.edgebuffer_map
    /\ <<Args[2], Args[1]>> \in DOMAIN pre.edgebuffer_map
    /\ Value = None
    /\ \E e \in DOMAIN pre.edgebuffer_map : Len(pre.edgebuffer_map[e]) >= 1

(***************************************************************************)
(* C17                                                                     *)
(***************************************************************************)
\* C17: take_buffer on an edge returns the packets of its buffer in buffer
\* order, leaves that buffer empty and everything else as it was;
\* Network::add_packet on an edge appends the packet to that buffer only,
\* and panics, the network unchanged, when there is no such edge.
C17_TakeAndPush ==
    /\ NetCalled("take_buffer") /\ <<Args[1], Args[2]>> \in DOMAIN pre.edgebuffer_map
          => LET e == <<Args[1], Args[2]>>
             IN  /\ status = "ok"
                 /\ Value = Some(pre.edgebuffer_map[e])
                 /\ e \in DOMAIN network.edgebuffer_map
                 /\ network.edgebuffer_map[e] = << >>
                 /\ SameButEdge(network, e)
    /\ NetCalled("Network_add_packet")
          => LET e == <<Args[1], Args[2]>>
             IN  IF e \in DOMAIN pre.edgebuffer_map
                 THEN /\ status = "ok"
                      /\ e \in DOMAIN network.edgebuffer_map
                      /\ network.edgebuffer_map[e] =
                             Append(pre.edgebuffer_map[e], arg[1])
                      /\ SameButEdge(network, e)
                 ELSE status = "panic" /\ network = pre

\* two packets taken out of one buffer, in the order they were pushed
C17_Witness ==
    /\ NetCalled("take_buffer")
    /\ status = "ok"
    /\ Value # None
    /\ Len(Value[1]) = 2
    /\ Value[1][1].id < Value[1][2].id
    /\ Cardinality(DOMAIN network.edgebuffer_map) = 2
    /\ \A e \in DOMAIN network.edgebuffer_map : network.edgebuffer_map[e] = << >>

(***************************************************************************)
(* simulation/random.rs, adversary/path_random.rs, simulation/threshold.rs *)
(***************************************************************************)
\* SimRng::rand_int(max): the values gen_range(0..max) can return; the call
\* panics when the range is empty
rand_int(max) == 0..(max - 1)

\* the packets of one get_next_packets call, one per source, all on the
\* whole path 0, .., dest_id
RECURSIVE MintAll(_, _, _, _, _)
MintAll(f, srcs, round, dest_id, acc) ==
    IF srcs = << >>
    THEN [packets |-> acc, factory |-> f]
    ELSE LET c == create_packet(f, Run(0, dest_id), round, Head(srcs))
         IN  MintAll(c.factory, Tail(srcs), round, dest_id,
                     Append(acc, c.packet))

\* dest_id = get_num_nodes() - 1 and dest_id - 1 are usize subtractions: on a
\* network of fewer than two nodes one of them goes below zero, which panics
\* in a debug build and wraps in a release build
src_id_overflows(net) == get_num_nodes(net) < 2

\* the values rand_int(dest_id - 1) can return.  After a wrap the range is
\* nearly all of usize, of which the values up to PktMaxIdx are kept; the
\* range is empty on two nodes, and rand_int panics
src_ids(net) ==
    IF src_id_overflows(net) THEN 0..PktMaxIdx
    ELSE rand_int(get_num_nodes(net) - 2)

\* the outcomes of SDPathRandomAdversary::get_next_packets; the path
\* (0..dest_id + 1) is empty when dest_id wrapped
SDPathRandom_get_next_packets(adv, f, net, round) ==
    LET dest_id == get_num_nodes(net) - 1
        panics == IF src_id_overflows(net) \/ src_ids(net) = {}
                  THEN {[panic |-> TRUE, packets |-> << >>, factory |-> f,
                         adversary |-> adv]}
                  ELSE {}
    IN  panics \cup
        {LET m == MintAll(f, <<src_id>>, round, dest_id, << >>)
         IN  [panic |-> FALSE, packets |-> m.packets,
              factory |-> m.factory, adversary |-> adv] :
            src_id \in src_ids(net)}

\* faulty variant: xi is not updated, every round has the whole burst
SDPathRandomBursty_get_next_packets_no_xi(adv, f, net, round) ==
    LET dest_id == get_num_nodes(net) - 1
    IN  UNION {
          (IF num_to_inject > 0
                /\ (src_id_overflows(net) \/ src_ids(net) = {})
           THEN {[panic |-> TRUE, packets |-> << >>, factory |-> f,
                  adversary |-> adv]}
           ELSE {}) \cup
          {LET m == MintAll(f, srcs, round, dest_id, << >>)
           IN  [panic |-> FALSE, packets |-> m.packets,
                factory |-> m.factory, adversary |-> adv] :
              srcs \in [1..num_to_inject -> src_ids(net)]} :
          num_to_inject \in rand_int(adv.sigma - adv.xi + 2)}

\* the outcomes of SDPathRandomBurstyAdversary::get_next_packets
SDPathRandomBursty_get_next_packets(adv, f, net, round) ==
    LET dest_id == get_num_nodes(net) - 1
        xi(num_to_inject) == IF adv.xi + num_to_inject = 0 THEN 0
                             ELSE adv.xi + num_to_inject - 1
    IN  UNION {
          (IF num_to_inject > 0
                /\ (src_id_overflows(net) \/ src_ids(net) = {})
           THEN {[panic |-> TRUE, packets |-> << >>, factory |-> f,
                  adversary |-> adv]}
           ELSE {}) \cup
          {LET m == MintAll(f, srcs, round, dest_id, << >>)
           IN  [panic |-> FALSE, packets |-> m.packets,
                factory |-> m.factory,
                adversary |-> [adv EXCEPT !.xi = xi(num_to_inject)]] :
              srcs \in [1..num_to_inject -> src_ids(net)]} :
          num_to_inject \in rand_int(adv.sigma - adv.xi + 2)}

\* Adversary::get_next_packets
get_next_packets(adv, f, net, round) ==
    IF adv.name = "sd_path_random"
    THEN SDPathRandom_get_next_packets(adv, f, net, round)
    ELSE SDPathRandomBursty_get_next_packets(adv, f, net, round)

RECURSIVE SumLoads(_, _, _)
SumLoads(eb_ids, net, total_load) ==
    IF eb_ids = << >> THEN total_load
    ELSE SumLoads(Tail(eb_ids), net,
                  total_load + Len(net.edgebuffer_map[Head(eb_ids)]))

\* Threshold::check_termination; the sum of TotalLoadThreshold does not
\* depend on the order of the listing
check_termination(th, round, net) ==
    IF th.name = "timed"
    THEN round >= th.max_rds
    ELSE SumLoads(CHOOSE eb_ids \in get_edgebuffers(net) : TRUE, net, 0)
             >= th.max_load

(***************************************************************************)
(* simulation/mod.rs: Simulation::run, one action for each stretch of the  *)
(* loop between two calls of a collaborator.                               *)
(***************************************************************************)
Adversaries ==
    {[name |-> "sd_path_random"]}
      \cup {[name |-> "sd_path_random_bursty", sigma |-> sigma, xi |-> 0] :
               sigma \in 0..RunMaxSigma}

Thresholds ==
    {[name |-> "timed", max_rds |-> m] : m \in 0..RunMaxRd}
      \cup {[name |-> "total_load", max_load |-> m] : m \in 0..RunMaxLoad}

RecorderVec(n) == [i \in 1..n |-> IF i = 1 THEN "debug_print" ELSE "file"]

\* Simulation::new takes any Network.  Besides the path networks the
\* adversaries are written for, the runs start from two networks on which a
\* collaborator fails: nodes without any edge, where the first add_packet
\* panics, and nodes with the edge (0, 1) alone, where an add_packet at
\* node 1 and a forward_packets out of edge (0, 1) panic.
InitRun ==
    /\ \/ \E num_buffers \in 1..RunMaxBuffers :
              network = construct_path(num_buffers)
       \/ network = AddNodes(Network_new, 3)
       \/ network = add_edgebuffer(AddNodes(Network_new, 4), 0, 1).net
    /\ protocol \in Protocols
    /\ adversary \in Adversaries
    /\ threshold \in Thresholds
    /\ \E n \in 0..RunMaxRecorders : recorders = RecorderVec(n)
    /\ factory = PacketFactory_new
    /\ absorbed = << >>
    /\ issued = << >>
    /\ arg = None
    /\ pre = network
    /\ lastOp = "new"
    /\ status = "ok"
    /\ packet = None
    /\ ret = None
    /\ hash = << >>
    /\ added = << >>
    /\ pc = "inject"
    /\ rd = 1
    /\ trace = << >>
    /\ locals = None

Event(op, x) == [op |-> op, rd |-> rd, x |-> x]

\* the loop that hands the packets to Protocol::add_packet one by one
RECURSIVE AddAll(_, _, _)
AddAll(packets, net, events) ==
    IF packets = << >>
    THEN [panic |-> FALSE, net |-> net, events |-> events]
    ELSE LET r == add_packet(Head(packets), net)
         IN  IF r.panic
             THEN [panic |-> TRUE, net |-> net, events |-> events]
             ELSE AddAll(Tail(packets), r.net,
                         Append(events, Event("add_packet", Head(packets).id)))

\* faulty variant: only the first packet of the round is added
AddFirst(packets, net, events) ==
    IF packets = << >>
    THEN [panic |-> FALSE, net |-> net, events |-> events]
    ELSE AddAll(<<Head(packets)>>, net, events)

\* the injection of round rd with the adversary's outcome g.  When
\* get_next_packets panics nothing has changed.  When it has returned and
\* an add_packet panics, the adversary has minted its packets and updated
\* itself, the packets added before are in the network, and run has made
\* the get_next_packets call and the add_packet calls that returned.
Injected(g, r) ==
    IF g.panic
    THEN /\ status' = "panic"
         /\ UNCHANGED <<network, factory, adversary, trace, pc>>
    ELSE /\ status' = IF r.panic THEN "panic" ELSE "ok"
         /\ network' = r.net
         /\ factory' = g.factory
         /\ adversary' = g.adversary
         /\ trace' = trace
                \o <<Event("get_next_packets",
                            [i \in 1..Len(g.packets) |-> g.packets[i].id])>>
                \o r.events
         /\ pc' = IF r.panic THEN pc ELSE "record_pre"

RunFrame ==
    UNCHANGED <<protocol, issued, arg, pre, lastOp, packet, ret, hash, added,
                threshold, recorders, locals>>

RunInjectFirstOnly ==
    /\ pc = "inject"
    /\ status = "ok"
    /\ rd <= RunMaxRd
    /\ \E g \in get_next_packets(adversary, factory, network, rd) :
           Injected(g, AddFirst(g.packets, network, << >>))
    /\ UNCHANGED <<rd, absorbed>>
    /\ RunFrame

RunInject ==
    /\ pc = "inject"
    /\ status = "ok"
    /\ rd <= RunMaxRd
    /\ \E g \in get_next_packets(adversary, factory, network, rd) :
           Injected(g, AddAll(g.packets, network, << >>))
    /\ UNCHANGED <<rd, absorbed>>
    /\ RunFrame

\* for recorder in &mut self.recorders { recorder.record(rd, prime, .., a) }
RecordAll(prime, a) ==
    [i \in 1..Len(recorders) |->
        Event("record", [recorder |-> i, prime |-> prime, absorbed |-> a])]

RunRecordPre ==
    /\ pc = "record_pre"
    /\ status = "ok"
    /\ trace' = trace \o RecordAll(FALSE, None)
    /\ pc' = "forward"
    /\ UNCHANGED <<network, factory, adversary, status, rd, absorbed>>
    /\ RunFrame

\* the forward_packets call of round rd, of outcome r; a call that panics
\* leaves the network r.net, without the packets it had taken out
RunForwarded(r) ==
    /\ IF r.panic
       THEN /\ status' = "panic"
            /\ network' = r.net
            /\ UNCHANGED <<absorbed, trace, pc>>
       ELSE /\ status' = "ok"
            /\ network' = r.net
            /\ absorbed' = r.absorbed
            /\ trace' = Append(trace, Event("forward_packets", r.absorbed))
            /\ pc' = "record_post"
    /\ UNCHANGED <<factory, adversary, rd>>
    /\ RunFrame

RunForward ==
    /\ pc = "forward"
    /\ status = "ok"
    /\ IF protocol.name = "oed_swap"
       THEN RunForwarded(OEDWithSwap_forward_packets(network))
       ELSE \E eb_ids \in get_edgebuffers(network) :
               RunForwarded(Greedy_forward_packets(protocol, eb_ids, network))

\* faulty variant: the post-forward record is handed no absorbed list
RunRecordPostNone ==
    /\ pc = "record_post"
    /\ status = "ok"
    /\ trace' = trace \o RecordAll(TRUE, None)
    /\ pc' = "check"
    /\ UNCHANGED <<network, factory, adversary, status, rd, absorbed>>
    /\ RunFrame

RunRecordPost ==
    /\ pc = "record_post"
    /\ status = "ok"
    /\ trace' = trace \o RecordAll(TRUE, Some(absorbed))
    /\ pc' = "check"
    /\ UNCHANGED <<network, factory, adversary, status, rd, absorbed>>
    /\ RunFrame

\* faulty variant: the loop is left whatever the poll returned
RunCheckBreak ==
    /\ pc = "check"
    /\ status = "ok"
    /\ trace' = Append(trace, Event("check_termination",
                                    check_termination(threshold, rd, network)))
    /\ pc' = "close"
    /\ UNCHANGED <<network, factory, adversary, status, rd, absorbed>>
    /\ RunFrame

RunCheck ==
    /\ pc = "check"
    /\ status = "ok"
    /\ LET t == check_termination(threshold, rd, network)
       IN  /\ trace' = Append(trace, Event("check_termination", t))
           /\ pc' = IF t THEN "close" ELSE "inject"
           /\ rd' = IF t THEN rd ELSE rd + 1
    /\ UNCHANGED <<network, factory, adversary, status, absorbed>>
    /\ RunFrame

RunClose ==
    /\ pc = "close"
    /\ status = "ok"
    /\ trace' = trace \o [i \in 1..Len(recorders) |-> Event("close", i)]
    /\ pc' = "done"
    /\ UNCHANGED <<network, factory, adversary, status, rd, absorbed>>
    /\ RunFrame

NextRun ==
    \/ RunInject
    \/ RunRecordPre
    \/ RunForward
    \/ RunRecordPost
    \/ RunCheck
    \/ RunClose

SpecRun == InitRun /\ [][NextRun]_vars

(***************************************************************************)
(* Vocabulary of the properties of Simulation::run: the calls made so far. *)
(***************************************************************************)
\* the calls to the adversary, the protocol and the threshold
Core == SelectSeq(trace, LAMBDA e : e.op \notin {"record", "close"})

\* the calls received by recorder j
Received(j) ==
    SelectSeq(trace, LAMBDA e : \/ e.op = "record" /\ e.x.recorder = j
                                \/ e.op = "close" /\ e.x = j)

\* the number of polls of the threshold in round r
Polls(r) ==
    Cardinality({i \in 1..Len(trace) :
                    trace[i].op = "check_termination" /\ trace[i].rd = r})

\* the index of the last call before trace[i] that is not to a recorder,
\* 0 if there is none
PrevCore(i) ==
    LET S == {j \in 1..(i - 1) : trace[j].op \notin {"record", "close"}}
    IN  IF S = {} THEN 0 ELSE CHOOSE j \in S : \A k \in S : k <= j

(***************************************************************************)
(* C18                                                                     *)
(***************************************************************************)
\* C18: a round is get_next_packets, then add_packet for each packet it
\* returned, in order, then one forward_packets, then the termination
\* check; the next round starts only after a check that returned false; the
\* round number starts at 1 and grows by 1 per round.
C18_RoundStructure ==
    \A i \in 1..Len(Core) :
        LET e == Core[i]
        IN  /\ e.op = "get_next_packets" =>
                  IF i = 1 THEN e.rd = 1
                  ELSE /\ Core[i - 1].op = "check_termination"
                       /\ Core[i - 1].x = FALSE
                       /\ e.rd = Core[i - 1].rd + 1
            /\ e.op = "add_packet" =>
                  /\ i > 1
                  /\ Core[i - 1].op \in {"get_next_packets", "add_packet"}
                  /\ Core[i - 1].rd = e.rd
            /\ e.op = "forward_packets" =>
                  \E g \in 1..(i - 1) :
                      /\ Core[g].op = "get_next_packets"
                      /\ Core[g].rd = e.rd
                      /\ i - g - 1 = Len(Core[g].x)
                      /\ \A k \in 1..Len(Core[g].x) :
                             /\ Core[g + k].op = "add_packet"
                             /\ Core[g + k].x = Core[g].x[k]
            /\ e.op = "check_termination" =>
                  /\ i > 1
                  /\ Core[i - 1].op = "forward_packets"
                  /\ Core[i - 1].rd = e.rd
                  /\ (e.x = TRUE => i = Len(Core))

\* a second round in which two packets were injected, run to its check
C18_Witness ==
    /\ \E i \in 1..Len(Core) :
          /\ Core[i].op = "get_next_packets"
          /\ Core[i].rd = 2
          /\ Len(Core[i].x) = 2
    /\ Polls(2) = 1

(***************************************************************************)
(* C19                                                                     *)
(***************************************************************************)
\* the rounds that have run to their end
Completed == {r \in 1..rd : r < rd \/ pc \in {"close", "done"}}

\* C19: the threshold is polled twice in every round, once between
\* injection and forwarding and once after forwarding, and the run stops
\* only on a poll that returned true.  run polls once a round, so the first
\* forward_packets call of any run has no poll before it.
C19_PolledTwice ==
    /\ \A i \in 1..Len(trace) :
          trace[i].op = "forward_packets" =>
              \E j \in 1..(i - 1) : /\ trace[j].op = "check_termination"
                                      /\ trace[j].rd = trace[i].rd
    /\ \A r \in Completed : Polls(r) = 2
    /\ pc \in {"close", "done"} =>
          /\ Core[Len(Core)].op = "check_termination"
          /\ Core[Len(Core)].x = TRUE

\* what run does: check_termination is called once in every round, after
\* forward_packets and the post-forward records, never between injection
\* and forwarding; the loop is left on a poll that returned true, and a
\* panic of get_next_packets, add_packet or forward_packets ends the run
\* with no poll.
C19_PolledOnce ==
    /\ \A i \in 1..Len(trace) :
          trace[i].op = "check_termination" =>
              /\ PrevCore(i) > 0
              /\ trace[PrevCore(i)].op = "forward_packets"
              /\ trace[PrevCore(i)].rd = trace[i].rd
              /\ i - PrevCore(i) - 1 = Len(recorders)
    /\ \A r \in 1..rd : Polls(r) = IF r \in Completed THEN 1 ELSE 0
    /\ pc \in {"close", "done"} =>
          /\ Core[Len(Core)].op = "check_termination"
          /\ Core[Len(Core)].x = TRUE

\* a run of two rounds that has ended, with a recorder, polled once a round
C19_Witness ==
    /\ pc = "done"
    /\ rd = 2
    /\ recorders # << >>
    /\ Polls(1) = 1 /\ Polls(2) = 1

(***************************************************************************)
(* C20                                                                     *)
(***************************************************************************)
\* C20: every recorder receives, round after round, record(rd, false, None)
\* after the injection and record(rd, true, Some(absorbed)) after the
\* forwarding, absorbed being what forward_packets returned in that round,
\* and one close at the end of the run, after which it receives nothing.
C20_RecorderProtocol ==
    /\ \A j \in 1..Len(recorders) :
          LET P == Received(j)
          IN  /\ \A k \in 1..Len(P) :
                    IF P[k].op = "close"
                    THEN k = Len(P) /\ k = 2 * rd + 1 /\ pc = "done"
                    ELSE /\ P[k].rd = (k + 1) \div 2
                         /\ P[k].x.prime = (k % 2 = 0)
              /\ pc = "done" => Len(P) = 2 * rd + 1 /\ P[Len(P)].op = "close"
              /\ pc \in {"check", "close"} => Len(P) = 2 * rd
    /\ \A i \in 1..Len(trace) :
          trace[i].op = "record" =>
              LET c == PrevCore(i)
              IN  /\ c > 0
                  /\ trace[c].rd = trace[i].rd
                  /\ IF trace[i].x.prime
                     THEN /\ trace[c].op = "forward_packets"
                          /\ trace[i].x.absorbed = Some(trace[c].x)
                     ELSE /\ trace[c].op \in {"get_next_packets", "add_packet"}
                          /\ trace[i].x.absorbed = None

\* a run of two rounds that has ended, with two recorders, in which a
\* packet was absorbed
C20_Witness ==
    /\ pc = "done"
    /\ rd = 2
    /\ Len(recorders) = 2
    /\ Len(Received(2)) = 5
    /\ Received(2)[4].x.absorbed # Some(<< >>)

(***************************************************************************)
(* The locals of the last OED-with-Swap call, edge i being the edge from i *)
(* to i + 1.                                                               *)
(***************************************************************************)
OEDFlag(i) == locals[1].oed_criterion[i + 1]
ShouldForward(i) == locals[1].forward_or_backward[i + 1][1]
ShouldBackward(i) == locals[1].forward_or_backward[i + 1][2]

(***************************************************************************)
(* C21                                                                     *)
(***************************************************************************)
\* C21: in an OED-with-Swap call on a path network oed_criterion has one
\* entry per edge; the entry of a non-last edge i is true iff
\* load(i) > load(i+1), or load(i) = load(i+1) and load(i) is odd, the loads
\* being those at the start of the call; the entry of the last edge is true
\* iff its buffer is non-empty.
C21_OEDCriterion ==
    OED_ok =>
        /\ Len(locals[1].oed_criterion) = pre.nodes - 1
        /\ \A i \in 0..(pre.nodes - 3) :
              OEDFlag(i) <=>
                  \/ Len(pre.edgebuffer_map[<<i, i + 1>>])
                       > Len(pre.edgebuffer_map[<<i + 1, i + 2>>])
                  \/ /\ Len(pre.edgebuffer_map[<<i, i + 1>>])
                          = Len(pre.edgebuffer_map[<<i + 1, i + 2>>])
                     /\ Len(pre.edgebuffer_map[<<i, i + 1>>]) % 2 = 1
        /\ OEDFlag(pre.nodes - 2) <=>
              Len(pre.edgebuffer_map[<<pre.nodes - 2, pre.nodes - 1>>]) > 0

\* a call on loads (1, 1, 0, 1): an odd tie passes, a larger load passes, a
\* smaller load fails, the non-empty last edge passes
C21_Witness ==
    /\ OED_ok
    /\ LastEdge = 3
    /\ SnapLoad(0) = 1 /\ SnapLoad(1) = 1 /\ SnapLoad(2) = 0 /\ SnapLoad(3) = 1
    /\ OEDFlag(0) /\ OEDFlag(1) /\ ~OEDFlag(2) /\ OEDFlag(3)

(***************************************************************************)
(* C22                                                                     *)
(***************************************************************************)
\* C22: for every non-empty edge i, should_forward is true iff i is the
\* last edge, or oed_criterion[i] is true, or the oldest packet of edge i
\* has higher priority than the youngest packet of edge i + 1; for an empty
\* edge both flags are false and no packet of the pending-move list comes
\* from it.  A non-empty last edge forwards a packet in every call.
C22_ShouldForward ==
    OED_ok =>
        /\ \A i \in 0..LastEdge :
              IF SnapLoad(i) = 0
              THEN /\ ~ShouldForward(i)
                   /\ ~ShouldBackward(i)
                   /\ MovedForward(i) = {} /\ MovedBackward(i) = {}
              ELSE ShouldForward(i) <=>
                       \/ i = LastEdge
                       \/ OEDFlag(i)
                       \/ /\ i < LastEdge
                          /\ SnapLoad(i + 1) > 0
                          /\ Older(SnapOldest(i), SnapYoungest(i + 1))
        /\ SnapLoad(LastEdge) > 0 =>
              /\ ShouldForward(LastEdge)
              /\ \E p \in SeqSet(SnapBuf(LastEdge)) :
                    \E q \in SeqSet(absorbed) :
                        q.id = p.id /\ q.path_idx = p.path_idx + 1

\* edge 0 fails the criterion and forwards all the same, its oldest packet
\* being older than the youngest of edge 1; the last edge is not empty and
\* forwards
C22_Witness ==
    /\ OED_ok
    /\ SnapLoad(0) > 0
    /\ ~OEDFlag(0)
    /\ ShouldForward(0)
    /\ MovedForward(0) # {}
    /\ SnapLoad(LastEdge) > 0
    /\ Len(absorbed) = 1

(***************************************************************************)
(* C23                                                                     *)
(***************************************************************************)
\* C23 as claimed: for every non-empty edge i, should_backward is true iff
\* i > 0 and edge i - 1 is non-empty and oed_criterion[i - 1] is false and
\* the youngest packet of edge i has higher priority than the oldest packet
\* of edge i - 1.
C23_ShouldBackwardYoungestOlder ==
    OED_ok =>
        \A i \in 0..LastEdge :
            SnapLoad(i) > 0 =>
                (ShouldBackward(i) <=>
                     /\ i > 0
                     /\ SnapLoad(i - 1) > 0
                     /\ ~OEDFlag(i - 1)
                     /\ Older(SnapYoungest(i), SnapOldest(i - 1)))

\* C23 (amended): for every non-empty edge i, should_backward is true iff
\* i > 0 and edge i - 1 is non-empty and oed_criterion[i - 1] is false and
\* the oldest packet of edge i - 1 has higher priority than the youngest
\* packet of edge i.
C23_ShouldBackward ==
    OED_ok =>
        \A i \in 0..LastEdge :
            SnapLoad(i) > 0 =>
                (ShouldBackward(i) <=>
                     /\ i > 0
                     /\ SnapLoad(i - 1) > 0
                     /\ ~OEDFlag(i - 1)
                     /\ Older(SnapOldest(i - 1), SnapYoungest(i)))

\* edge 1 is flagged: edge 0 is not empty and fails the criterion, and its
\* oldest packet is older than the youngest packet of edge 1, though that
\* packet entered the network in the same round
C23_Witness ==
    /\ OED_ok
    /\ ShouldBackward(1)
    /\ SnapLoad(0) > 0
    /\ ~OEDFlag(0)
    /\ Older(SnapOldest(0), SnapYoungest(1))
    /\ SnapOldest(0).injection_rd = SnapYoungest(1).injection_rd

(***************************************************************************)
(* OED-with-Swap set up as the tests of oed.rs set it up: every packet     *)
(* carries the path (0..PATH_LEN), enters at any edge of it, and has its   *)
(* id for its injection round.                                             *)
(***************************************************************************)
InitSwap ==
    /\ network = construct_path(SwapBuffers)
    /\ protocol = OEDWithSwap_new
    /\ factory = PacketFactory_new
    /\ absorbed = << >>
    /\ issued = << >>
    /\ arg = None
    /\ pre = network
    /\ lastOp = "new"
    /\ status = "ok"
    /\ OthersIdle

AddPacketInOrder ==
    /\ factory.cur_id < SwapPackets
    /\ \E path_idx \in 0..(network.nodes - 3) :
           Inject(packet_path(network), factory.cur_id, path_idx)

NextSwap == AddPacketInOrder \/ ForwardOED

SpecSwap == InitSwap /\ [][NextSwap]_vars

(***************************************************************************)
(* C24                                                                     *)
(***************************************************************************)
\* the ids of the packets in the buffer of edge i after the call
IdsIn(i) == {q.id : q \in SeqSet(network.edgebuffer_map[<<i, i + 1>>])}

\* C24: in an OED-with-Swap call a non-empty edge x with x > 0 sends its
\* youngest packet backward into edge x - 1 iff edge x - 1 is non-empty,
\* edges x - 1 and x fail the OED criterion, and the youngest packet of x is
\* younger than the oldest packet of x - 1; edge 0 sends nothing backward.
\* With loads (2,2) or (1,2) on edges (0,1), (1,2) and the oldest packet of
\* edge (0,1) older than the youngest of edge (1,2), that youngest packet
\* ends in edge (0,1) and the oldest packet of edge (0,1) ends in edge
\* (1,2); with loads (3,3) no packet of edge (1,2) moves backward.
C24_SwapRule ==
    OED_ok =>
        /\ MovedBackward(0) = {}
        /\ \A x \in 1..LastEdge :
              SnapLoad(x) > 0 =>
                  IF /\ SnapLoad(x - 1) > 0
                     /\ ~(\/ SnapLoad(x - 1) > SnapLoad(x)
                          \/ (SnapLoad(x - 1) = SnapLoad(x)
                                /\ SnapLoad(x - 1) % 2 = 1))
                     /\ Older(SnapOldest(x - 1), SnapYoungest(x))
                  THEN /\ MovedBackward(x) = {SnapYoungest(x)}
                       /\ SnapYoungest(x).id \in IdsIn(x - 1)
                       /\ SnapYoungest(x).id \notin IdsIn(x)
                  ELSE /\ MovedBackward(x) = {}
                       /\ SnapYoungest(x).id \notin IdsIn(x - 1)
        /\ (/\ <<SnapLoad(0), SnapLoad(1)>> \in {<<2, 2>>, <<1, 2>>}
            /\ Older(SnapOldest(0), SnapYoungest(1)))
              => /\ SnapYoungest(1).id \in IdsIn(0)
                 /\ SnapOldest(0).id \in IdsIn(1)
        /\ (SnapLoad(0) = 3 /\ SnapLoad(1) = 3)
              => /\ MovedBackward(1) = {}
                 /\ \A p \in SeqSet(SnapBuf(1)) : p.id \notin IdsIn(0)

\* tests::test_even_swap: loads (2,2), the packets of rounds 0 and 3 in edge
\* (0,1) and those of rounds 1 and 2 in edge (1,2); after the call edge
\* (0,1) holds the packets of rounds 3 and 2 and edge (1,2) that of round 0
C24_Witness ==
    /\ OED_ok
    /\ SnapLoad(0) = 2 /\ SnapLoad(1) = 2 /\ SnapLoad(2) = 0
    /\ {p.injection_rd : p \in SeqSet(SnapBuf(0))} = {0, 3}
    /\ {p.injection_rd : p \in SeqSet(SnapBuf(1))} = {1, 2}
    /\ {q.injection_rd : q \in SeqSet(network.edgebuffer_map[<<0, 1>>])} = {3, 2}
    /\ {q.injection_rd : q \in SeqSet(network.edgebuffer_map[<<1, 2>>])} = {0}
    /\ {q.injection_rd : q \in SeqSet(network.edgebuffer_map[<<2, 3>>])} = {1}

(***************************************************************************)
(* C25                                                                     *)
(***************************************************************************)
\* the entries of the pending-move list of the last call that were taken
\* from edge i and advanced (d = 1) or retreated (d = -1)
Pending(i, d) ==
    {k \in 1..Len(locals[1].to_fwd_and_bwd) :
        \E p \in SeqSet(SnapBuf(i)) :
            /\ locals[1].to_fwd_and_bwd[k].id = p.id
            /\ locals[1].to_fwd_and_bwd[k].path_idx = p.path_idx + d}

\* the forward move out of edge i absorbs: every packet of the edge is one
\* hop before the last node of its path
Absorbing(i) ==
    \A p \in SeqSet(SnapBuf(i)) : p.path_idx + 2 = Len(p.path)

\* C25: in one OED-with-Swap call at most one packet is forwarded out of
\* each edge and at most one packet is sent backward out of each edge, so an
\* edge loses at most two packets.  When an edge whose forward move absorbs
\* holds two packets and every other edge is empty, only the
\* higher-priority one is absorbed and the other is still in that edge after
\* the call.
C25_OneForwardOneBackward ==
    OED_ok =>
        /\ \A i \in 0..LastEdge :
              /\ Cardinality(Pending(i, 1)) <= 1
              /\ Cardinality(Pending(i, -1)) <= 1
              /\ SnapLoad(i) - Cardinality(Stayed(i)) <= 2
              /\ SnapLoad(i) - Cardinality(Stayed(i))
                    = Cardinality(Pending(i, 1)) + Cardinality(Pending(i, -1))
        /\ \A i \in 0..LastEdge :
              (/\ SnapLoad(i) = 2
               /\ Absorbing(i)
               /\ \A j \in (0..LastEdge) \ {i} : SnapLoad(j) = 0)
                 => /\ Len(absorbed) = 1
                    /\ absorbed[1].id = SnapOldest(i).id
                    /\ network.edgebuffer_map[<<i, i + 1>>]
                           = <<SnapYoungest(i)>>

\* tests::test_absorption_multiple_packets_in_last: the last edge of the
\* packets' path, which is the last but one of the network, held two packets
\* and nothing else was in the network; the older one was absorbed and the
\* younger one is still in that edge
C25_Witness ==
    /\ OED_ok
    /\ SnapLoad(LastEdge - 1) = 2
    /\ Absorbing(LastEdge - 1)
    /\ \A i \in (0..LastEdge) \ {LastEdge - 1} : SnapLoad(i) = 0
    /\ Len(absorbed) = 1
    /\ Len(network.edgebuffer_map[<<LastEdge - 1, LastEdge>>]) = 1
    /\ absorbed[1].injection_rd
          < network.edgebuffer_map[<<LastEdge - 1, LastEdge>>][1].injection_rd

(***************************************************************************)
(* C26                                                                     *)
(***************************************************************************)
\* the packets of the pending-move list taken from edge i and advanced
\* (d = 1) or retreated (d = -1)
PendingPackets(i, d) == {locals[1].to_fwd_and_bwd[k] : k \in Pending(i, d)}

\* C26: an edge flagged should_backward holds at least 2 packets at the
\* start of the call, so the backward selection never meets a buffer that
\* the forward move has emptied and the call does not abort; an edge that
\* makes both moves moves two different packets, its oldest forward and its
\* youngest backward.
C26_ForwardAndBackwardDiffer ==
    (lastOp = "forward_packets" /\ protocol.name = "oed_swap") =>
        /\ status = "ok"
        /\ \A i \in 0..LastEdge :
              /\ ShouldBackward(i) => SnapLoad(i) >= 2
              /\ (ShouldForward(i) /\ ShouldBackward(i)) =>
                    /\ Cardinality(PendingPackets(i, 1)) = 1
                    /\ Cardinality(PendingPackets(i, -1)) = 1
                    /\ \A p \in PendingPackets(i, 1), q \in PendingPackets(i, -1) :
                          /\ p.id # q.id
                          /\ p.id = SnapOldest(i).id
                          /\ q.id = SnapYoungest(i).id

\* tests::test_odd_swap: loads (1,2); edge (1,2) forwarded its oldest packet
\* and sent its youngest backward, and is empty after the call
C26_Witness ==
    /\ OED_ok
    /\ SnapLoad(0) = 1 /\ SnapLoad(1) = 2
    /\ ShouldForward(1) /\ ShouldBackward(1)
    /\ Len(network.edgebuffer_map[<<0, 1>>]) = 1
    /\ network.edgebuffer_map[<<0, 1>>][1].id = SnapYoungest(1).id
    /\ SnapOldest(1).id \in IdsIn(2)

(***************************************************************************)
(* The moves of a Greedy call, read off the buffers before and after it.   *)
(***************************************************************************)
Greedy_ok(name) == Forwarded_ok /\ protocol.name = name

\* the number of packets a Greedy call takes out of a buffer
NumToFwd(buffer) ==
    IF protocol.capacity < Len(buffer) THEN protocol.capacity ELSE Len(buffer)

\* the entries of the pending-move list whose id is one of ids, in list order
PendingOf(ids) ==
    LET Test(p) == p.id \in ids
    IN  SelectSeq(locals[1].packets_to_fwd, Test)

\* packet p one hop further on
Advanced(p) == [p EXCEPT !.path_idx = p.path_idx + 1]

(***************************************************************************)
(* C27                                                                     *)
(***************************************************************************)
\* C27: in one Greedy-FIFO call with capacity c the packets removed from a
\* buffer are exactly its first min(c, load) packets, front first, whatever
\* their injection rounds; the remaining packets keep their relative order
\* and are at the front of the buffer after the call, and every packet that
\* arrived during the call is behind them.
C27_FifoOrder ==
    Greedy_ok("greedy_fifo") =>
        \A e \in Edges(pre) :
            LET before == pre.edgebuffer_map[e]
                after == network.edgebuffer_map[e]
                n == NumToFwd(before)
                ids == {before[k].id : k \in 1..Len(before)}
            IN  /\ PendingOf(ids) = [k \in 1..n |-> Advanced(before[k])]
                /\ Len(after) >= Len(before) - n
                /\ SubSeq(after, 1, Len(before) - n)
                      = SubSeq(before, n + 1, Len(before))
                /\ \A k \in (Len(before) - n + 1)..Len(after) :
                      /\ after[k].id \notin ids
                      /\ \E q \in PacketsIn(pre) : after[k] = Advanced(q)

\* capacity 1: the front packet of a buffer was forwarded though the packet
\* behind it is older; that packet is now at the front, and a packet that
\* arrived during the call is behind it
C27_Witness ==
    /\ Greedy_ok("greedy_fifo")
    /\ protocol.capacity = 1
    /\ \E e \in Edges(pre) :
          /\ Len(pre.edgebuffer_map[e]) = 2
          /\ pre.edgebuffer_map[e][1].injection_rd
                > pre.edgebuffer_map[e][2].injection_rd
          /\ Len(network.edgebuffer_map[e]) = 2
          /\ network.edgebuffer_map[e][1] = pre.edgebuffer_map[e][2]
          /\ network.edgebuffer_map[e][2].id # pre.edgebuffer_map[e][1].id

(***************************************************************************)
(* C28                                                                     *)
(***************************************************************************)
\* the position in buffer of the packet with this id
Pos(buffer, id) == CHOOSE k \in 1..Len(buffer) : buffer[k].id = id

\* C28: in one Greedy-LIS call with capacity c every packet removed from a
\* buffer has, at the moment it is removed, the smallest injection round of
\* the packets then in the buffer, and is the earliest-positioned one of
\* those with that round; so every packet forwarded from a buffer has an
\* injection round <= that of every packet of the buffer at the start of the
\* call that was not forwarded.
C28_LisSelection ==
    Greedy_ok("greedy_lis") =>
        \A e \in Edges(pre) :
            LET before == pre.edgebuffer_map[e]
                ids == {before[k].id : k \in 1..Len(before)}
                taken == PendingOf(ids)
                Then(k) == {p \in SeqSet(before) :
                               \A j \in 1..(k - 1) : taken[j].id # p.id}
            IN  /\ Len(taken) = NumToFwd(before)
                /\ \A k \in 1..Len(taken) :
                      /\ taken[k].id \in {p.id : p \in Then(k)}
                      /\ \A q \in Then(k) :
                            \/ taken[k].injection_rd < q.injection_rd
                            \/ /\ taken[k].injection_rd = q.injection_rd
                               /\ Pos(before, taken[k].id) <= Pos(before, q.id)
                /\ \A k \in 1..Len(taken) :
                      \A q \in SeqSet(before) :
                          q \in SeqSet(network.edgebuffer_map[e])
                              => taken[k].injection_rd <= q.injection_rd

\* capacity 2 and a buffer of three packets of rounds 1, 0, 0 in this order:
\* the second packet was removed first, then the third, and the packet of
\* round 1 stayed
C28_Witness ==
    /\ Greedy_ok("greedy_lis")
    /\ protocol.capacity = 2
    /\ \E e \in Edges(pre) :
          LET before == pre.edgebuffer_map[e]
          IN  /\ Len(before) = 3
              /\ before[1].injection_rd = 1
              /\ before[2].injection_rd = 0
              /\ before[3].injection_rd = 0
              /\ Len(locals[1].packets_to_fwd) = 2
              /\ locals[1].packets_to_fwd[1].id = before[2].id
              /\ locals[1].packets_to_fwd[2].id = before[3].id
              /\ before[1] \in SeqSet(network.edgebuffer_map[e])

(***************************************************************************)
(* C29                                                                     *)
(***************************************************************************)
\* the pending-move list of the last forward_packets call
PendingList ==
    IF protocol.name = "oed_swap"
    THEN locals[1].to_fwd_and_bwd
    ELSE locals[1].packets_to_fwd

\* the edges whose buffer holds a packet with this id
EdgesOf(net, id) ==
    {e \in Edges(net) : \E k \in 1..Len(net.edgebuffer_map[e]) :
                            net.edgebuffer_map[e][k].id = id}

\* C29: in a single forward_packets call of any variant the cursor of every
\* packet changes by at most 1 (Greedy: 0 or +1; OED-with-Swap: -1, 0 or
\* +1); no packet is moved twice, also when it is moved into a buffer that
\* is scanned later in the call; a packet that is not selected keeps its
\* cursor and its buffer; id, path and injection round of every packet are
\* as they were.
C29_OneHopPerCall ==
    Forwarded_ok =>
        /\ \A i, j \in 1..Len(PendingList) :
              i # j => PendingList[i].id # PendingList[j].id
        /\ \A p \in PacketsIn(pre) :
              \A q \in Now :
                  q.id = p.id =>
                      LET d == q.path_idx - p.path_idx
                          selected == \E k \in 1..Len(PendingList) :
                                         PendingList[k].id = p.id
                      IN  /\ q.path = p.path
                          /\ q.injection_rd = p.injection_rd
                          /\ d \in {-1, 0, 1}
                          /\ protocol.name # "oed_swap" => d \in {0, 1}
                          /\ selected => d # 0
                          /\ ~selected =>
                                /\ d = 0
                                /\ q \notin SeqSet(absorbed)
                                /\ EdgesOf(network, p.id) = EdgesOf(pre, p.id)

\* Greedy with capacity 2: the only packet of edge (0,1) was moved into edge
\* (1,2), which was scanned after it and gave up its own single packet; the
\* packet that arrived is in edge (1,2) after the call, one hop from where
\* it was
C29_Witness ==
    /\ Forwarded_ok
    /\ protocol.name \in {"greedy_fifo", "greedy_lis"}
    /\ protocol.capacity = 2
    /\ pre.nodes = 3
    /\ Len(pre.edgebuffer_map[<<0, 1>>]) = 1
    /\ Len(pre.edgebuffer_map[<<1, 2>>]) = 1
    /\ Len(locals[1].packets_to_fwd) = 2
    /\ locals[1].eb_ids = <<<<0, 1>>, <<1, 2>>>>
    /\ network.edgebuffer_map[<<1, 2>>]
          = <<Advanced(pre.edgebuffer_map[<<0, 1>>][1])>>

(***************************************************************************)
(* C30                                                                     *)
(***************************************************************************)
\* C30: in any sequence of add_packet and forward_packets calls under
\* OED-with-Swap on a path network, with packets of any path and initial
\* cursor that add_packet accepts, the packet an edge sends backward never
\* has cursor 0, and decrement_path_idx never panics.
C30_NoBackwardAtOrigin ==
    (lastOp = "forward_packets" /\ protocol.name = "oed_swap") =>
        \A i \in 0..LastEdge :
            ShouldBackward(i) => SnapYoungest(i).path_idx > 0

(***************************************************************************)
(* C31                                                                     *)
(***************************************************************************)
\* C31: when packets enter only through Protocol::add_packet and move only
\* through forward_packets, every packet a buffer holds has a next node
\* (cursor <= len(path) - 2), in every state and at the start of every
\* forward_packets call of every variant; the packets a call advances are
\* packets of those buffers, so advance is never called on an absorbed
\* packet, and every advanced packet of the pending-move list has a cursor
\* within its path.
C31_AdvanceNeverOnAbsorbed ==
    /\ \A p \in PacketsIn(network) : p.path_idx + 1 < Len(p.path)
    /\ lastOp = "forward_packets" =>
          /\ \A p \in PacketsIn(pre) :
                p.path_idx + 1 < Len(p.path) /\ p.path_idx # Len(p.path)
          /\ \A k \in 1..Len(PendingList) :
                PendingList[k].path_idx < Len(PendingList[k].path)

\* the nearest the code comes to the check: under each variant a packet one
\* hop before its last node was advanced, and was returned as absorbed
C31_Witness ==
    /\ Forwarded_ok
    /\ \E p \in PacketsIn(pre) :
          /\ p.path_idx = Len(p.path) - 2
          /\ Len(p.path) = 3
          /\ \E k \in 1..Len(PendingList) : PendingList[k] = Advanced(p)
          /\ Advanced(p) \in SeqSet(absorbed)

(***************************************************************************)
(* C32                                                                     *)
(***************************************************************************)
\* the rounds in which forward_packets has been called, in call order
ForwardRounds ==
    LET F == SelectSeq(trace, LAMBDA e : e.op = "forward_packets")
    IN  [i \in 1..Len(F) |-> F[i].rd]

\* C32: with a Timed threshold of max_rds rounds, Simulation::run never
\* calls forward_packets more than max_rds times, and when it leaves its
\* loop to close the recorders it has called forward_packets exactly max_rds
\* times, in the rounds 1, .., max_rds, for every max_rds >= 0.
C32_TimedRounds ==
    threshold.name = "timed" =>
        /\ Len(ForwardRounds) <= threshold.max_rds
        /\ pc \in {"close", "done"} =>
              ForwardRounds = [i \in 1..threshold.max_rds |-> i]

(***************************************************************************)
(* C33                                                                     *)
(***************************************************************************)
\* C33: for every packet whose cursor is within 0..len(path), dist_to_go
\* returns len(path) - cursor, the number of advance steps the packet still
\* needs to be absorbed (4, 3, 1 and 0 for a 4-node path at cursors 0, 1, 3
\* and 4), and returns 0 exactly when the packet is absorbed.
C33_DistToGo ==
    (/\ lastOp = "dist_to_go"
     /\ arg[1].path_idx <= Len(arg[1].path)) =>
        /\ status = "ok"
        /\ ret[1] = Len(arg[1].path) - arg[1].path_idx
        /\ (ret[1] = 0) <=> (arg[1].path_idx = Len(arg[1].path))

(***************************************************************************)
(* C34                                                                     *)
(***************************************************************************)
\* C34 as claimed: in every OED-with-Swap call, an edge i flagged
\* should_backward has its predecessor edge i - 1 flagged should_forward;
\* the call then moves exactly one packet forward across node i, the oldest
\* of edge i - 1, which ends in edge i, and exactly one backward across it,
\* the youngest of edge i, which ends in edge i - 1: the exchange across
\* node i is one for one and leaves the loads of the two edges unchanged
\* with respect to each other.
C34_SwapPairing ==
    OED_ok =>
        \A i \in 1..LastEdge :
            ShouldBackward(i) =>
                /\ ShouldForward(i - 1)
                /\ Cardinality(Pending(i - 1, 1)) = 1
                /\ Cardinality(Pending(i, -1)) = 1
                /\ SnapOldest(i - 1).id \in IdsIn(i)
                /\ SnapYoungest(i).id \in IdsIn(i - 1)

\* the ids of the packets the last call returned
IdsAbsorbed == {q.id : q \in SeqSet(absorbed)}

\* C34 (amended): in every OED-with-Swap call, an edge i flagged
\* should_backward has its predecessor edge i - 1 flagged should_forward;
\* the call then moves exactly one packet forward across node i, the oldest
\* of edge i - 1, and exactly one backward across it, the youngest of edge
\* i, which ends in edge i - 1.  The forwarded packet ends in edge i, and
\* the exchange is one for one, unless node i is the last node of its path:
\* then it is absorbed at node i and is returned.
C34_SwapPairingOrAbsorbed ==
    (lastOp = "forward_packets" /\ protocol.name = "oed_swap") =>
        \A i \in 1..LastEdge :
            (locals[1].forward_or_backward # << >> /\ ShouldBackward(i)) =>
                /\ ShouldForward(i - 1)
                /\ status = "ok" =>
                      /\ Cardinality(Pending(i - 1, 1)) = 1
                      /\ Cardinality(Pending(i, -1)) = 1
                      /\ SnapYoungest(i).id \in IdsIn(i - 1)
                      /\ IF SnapOldest(i - 1).path_idx + 2
                               = Len(SnapOldest(i - 1).path)
                         THEN /\ SnapOldest(i - 1).id \in IdsAbsorbed
                              /\ SnapOldest(i - 1).id \notin IdsIn(i)
                         ELSE /\ SnapOldest(i - 1).id \in IdsIn(i)
                              /\ SnapOldest(i - 1).id \notin IdsAbsorbed

\* loads (1,2) on two edges: edge (1,2) sent its youngest packet backward
\* into edge (0,1), whose oldest packet, on its way to node 2, crossed node
\* 1 into edge (1,2): one packet for one
C34_Witness ==
    /\ OED_ok
    /\ pre.nodes = 3
    /\ SnapLoad(0) = 1 /\ SnapLoad(1) = 2
    /\ ShouldBackward(1) /\ ShouldForward(0) /\ ~OEDFlag(0)
    /\ Len(SnapOldest(0).path) = 3
    /\ SnapOldest(0).id \in IdsIn(1)
    /\ SnapYoungest(1).id \in IdsIn(0)
    /\ Len(network.edgebuffer_map[<<0, 1>>]) = 1

(***************************************************************************)
(* C35                                                                     *)
(***************************************************************************)
\* C35: at the start of every OED-with-Swap call on a path network, a
\* non-last edge i that is non-empty and fails the OED criterion has a
\* non-empty successor edge i + 1, so the youngest packet of edge i + 1 that
\* should_forward compares against exists.
C35_NextYoungestExists ==
    (lastOp = "forward_packets" /\ protocol.name = "oed_swap") =>
        \A i \in 0..(LastEdge - 1) :
            (SnapLoad(i) > 0 /\ ~OEDFlag(i)) =>
                /\ SnapLoad(i + 1) >= SnapLoad(i)
                /\ SnapYoungest(i + 1) \in SeqSet(SnapBuf(i + 1))

\* loads (1,2): edge (0,1) fails the criterion, so its oldest packet was
\* compared with the youngest packet of edge (1,2); it is the younger one,
\* and edge (0,1) did not forward
C35_Witness ==
    /\ OED_ok
    /\ SnapLoad(0) = 1 /\ SnapLoad(1) = 2
    /\ ~OEDFlag(0) /\ ~ShouldForward(0)
    /\ Older(SnapYoungest(1), SnapOldest(0))
    /\ SnapBuf(0) = network.edgebuffer_map[<<0, 1>>]

(***************************************************************************)
(* C36                                                                     *)
(***************************************************************************)
\* C36: after any sequence of add_packet and forward_packets calls of any
\* variant, every packet in the buffer of edge (u, v) has path[cursor] = u
\* and path[cursor + 1] = v, so its cursor is at most len(path) - 2.
C36_LocationConsistency ==
    \A e \in Edges(network) :
        \A k \in 1..Len(network.edgebuffer_map[e]) :
            LET p == network.edgebuffer_map[e][k]
            IN  /\ p.path_idx >= 0
                /\ p.path_idx <= Len(p.path) - 2
                /\ p.path[p.path_idx + 1] = e[1]
                /\ p.path[p.path_idx + 2] = e[2]

\* an OED-with-Swap call has exchanged two packets: the one it sent backward
\* is in edge (0,1) at cursor 0 and the one it forwarded is in edge (1,2) at
\* cursor 1
C36_Witness ==
    /\ OED_ok
    /\ pre.nodes = 3
    /\ \E p \in SeqSet(SnapBuf(1)), q \in SeqSet(SnapBuf(0)) :
          /\ p.path_idx = 1 /\ q.path_idx = 0
          /\ [p EXCEPT !.path_idx = 0] \in SeqSet(network.edgebuffer_map[<<0, 1>>])
          /\ Advanced(q) \in SeqSet(network.edgebuffer_map[<<1, 2>>])

(***************************************************************************)
(* The greedy protocols on a network that is not a path, built with        *)
(* add_node and add_edgebuffer: node 0 has the two outgoing edges (0,1)    *)
(* and (0,2), which get_edgebuffers may list in either order, and edges    *)
(* (0,2) and (1,2) both lead into node 2.  Packets follow any walk of the  *)
(* network from its first node.                                            *)
(***************************************************************************)
GraphEdges == <<<<0, 1>>, <<0, 2>>, <<1, 2>>, <<2, 3>>>>

RECURSIVE AddEdges(_, _)
AddEdges(net, edges) ==
    IF edges = << >> THEN net
    ELSE AddEdges(add_edgebuffer(net, Head(edges)[1], Head(edges)[2]).net,
                  Tail(edges))

\* the walks of net with at least one edge
Walks(net) ==
    UNION {{w \in [1..n -> 0..(net.nodes - 1)] :
               \A i \in 1..(n - 1) : HasEdge(net, w[i], w[i + 1])} :
           n \in 2..net.nodes}

InitGraph ==
    /\ network = AddEdges(AddNodes(Network_new, 4), GraphEdges)
    /\ protocol \in {GreedyFIFO_new(c) : c \in 1..MaxCapacity}
                      \cup {GreedyLIS_new(c) : c \in 1..MaxCapacity}
    /\ factory = PacketFactory_new
    /\ absorbed = << >>
    /\ issued = << >>
    /\ arg = None
    /\ pre = network
    /\ lastOp = "new"
    /\ status = "ok"
    /\ OthersIdle

AddPacketOnWalk ==
    /\ factory.cur_id < GraphPackets
    /\ \E path \in Walks(network), injection_rd \in 0..MaxRd :
           Inject(path, injection_rd, 0)

NextGraph == AddPacketOnWalk \/ ForwardGreedy

SpecGraph == InitGraph /\ [][NextGraph]_vars

(***************************************************************************)
(* C37                                                                     *)
(***************************************************************************)
\* C37: the buffers after a Greedy-FIFO or Greedy-LIS forward_packets call,
\* contents and internal order, are the same for every order in which
\* get_edgebuffers can list the edges of one from-node: whatever listing the
\* call worked through, every other listing of the network as it was gives
\* the same network and returns the same packets as absorbed, in possibly
\* another order.
C37_ListingOrderIrrelevant ==
    (lastOp = "forward_packets" /\ protocol.name \in {"greedy_fifo", "greedy_lis"}) =>
        \A eb_ids \in get_edgebuffers(pre) :
            LET r == Greedy_forward_packets(protocol, eb_ids, pre)
            IN  /\ r.panic = (status = "panic")
                /\ ~r.panic =>
                      /\ r.net = network
                      /\ Len(r.absorbed) = Len(absorbed)
                      /\ SeqSet(r.absorbed) = SeqSet(absorbed)

\* edges (0,1) and (0,2) each gave up a packet that ended its path; the call
\* listed (0,2) first, and with the other listing the same network results
\* and the absorbed list comes in the other order
C37_Witness ==
    /\ Forwarded_ok
    /\ protocol.name \in {"greedy_fifo", "greedy_lis"}
    /\ locals[1].eb_ids[1] = <<0, 2>>
    /\ Len(absorbed) = 2
    /\ \E eb_ids \in get_edgebuffers(pre) :
          LET r == Greedy_forward_packets(protocol, eb_ids, pre)
          IN  /\ eb_ids[1] = <<0, 1>>
              /\ r.net = network
              /\ r.absorbed = <<absorbed[2], absorbed[1]>>

(***************************************************************************)
(* C38                                                                     *)
(***************************************************************************)
\* the packet of the network at the start of the last call that has higher
\* priority than every other
SnapGlobalOldest ==
    CHOOSE p \in PacketsIn(pre) : \A q \in PacketsIn(pre) \ {p} : Older(p, q)

\* C38: every OED-with-Swap call on a path network that holds a packet moves
\* the packet of globally highest priority forward by exactly one hop, into
\* the next edge or into the returned list, and does not select it for a
\* backward move: it is in the pending-move list once, advanced.
C38_GlobalOldestAdvances ==
    (OED_ok /\ PacketsIn(pre) # {}) =>
        LET g == SnapGlobalOldest
            K == {k \in 1..Len(PendingList) : PendingList[k].id = g.id}
        IN  /\ Cardinality(K) = 1
            /\ \A k \in K : PendingList[k] = Advanced(g)
            /\ Advanced(g) \in Now
            /\ \A q \in Now : q.id = g.id => q = Advanced(g)
            /\ IF g.path_idx + 2 = Len(g.path)
               THEN Advanced(g) \in SeqSet(absorbed)
               ELSE Advanced(g) \in SeqSet(network.edgebuffer_map[
                                         <<g.path_idx + 1, g.path_idx + 2>>])

\* loads (1,2): edge (0,1) fails the OED criterion and holds the globally
\* oldest packet, behind which edge (1,2) holds an older and a younger one;
\* the packet was forwarded on its priority and is in edge (1,2)
C38_Witness ==
    /\ OED_ok
    /\ SnapLoad(0) = 1 /\ SnapLoad(1) = 2
    /\ ~OEDFlag(0)
    /\ SnapGlobalOldest = SnapBuf(0)[1]
    /\ SnapBuf(1)[1].injection_rd > SnapBuf(1)[2].injection_rd
    /\ SnapGlobalOldest.id \in IdsIn(1)

(***************************************************************************)
(* OED-with-Swap on a path network with packets whose paths are stretches  *)
(* of the path, as PresetAdversary can inject them.                        *)
(***************************************************************************)
InitDrain ==
    /\ network = construct_path(MaxBuffers)
    /\ protocol = OEDWithSwap_new
    /\ factory = PacketFactory_new
    /\ absorbed = << >>
    /\ issued = << >>
    /\ arg = None
    /\ pre = network
    /\ lastOp = "new"
    /\ status = "ok"
    /\ OthersIdle

\* a packet on the stretch a, .., b of the path, at any cursor add_packet
\* accepts
AddPacketAlongPath ==
    /\ factory.cur_id < MaxPackets
    /\ \E a \in 0..(network.nodes - 2), injection_rd \in 0..MaxRd :
           \E b \in (a + 1)..(network.nodes - 1) :
               \E path_idx \in 0..(b - a - 1) :
                   Inject(Run(a, b), injection_rd, path_idx)

NextDrain == AddPacketAlongPath \/ ForwardOED

SpecDrain == InitDrain /\ [][NextDrain]_vars

\* The rounds of Simulation::run from net on when nothing more is injected:
\* forward_packets is called round after round.  The call is a function of
\* the network, so the buffers are eventually all empty iff the calls reach
\* the empty network before one of them panics or a network comes back
\* (seen: the networks the calls have started from).
RECURSIVE Drains(_, _)
Drains(net, seen) ==
    IF \A e \in Edges(net) : net.edgebuffer_map[e] = << >> THEN TRUE
    ELSE IF net \in seen THEN FALSE
    ELSE LET r == OEDWithSwap_forward_packets(net)
         IN  IF r.panic THEN FALSE ELSE Drains(r.net, seen \cup {net})

(***************************************************************************)
(* C39                                                                     *)
(***************************************************************************)
\* C39: under OED-with-Swap on a path network, from every state a run
\* reaches with packets whose paths follow the path, forward_packets calls
\* without further injections eventually leave every buffer empty: no call
\* aborts and the backward moves do not keep a packet in the network for
\* ever.
C39_Draining ==
    (status = "ok" /\ protocol.name = "oed_swap") => Drains(network, {})

(***************************************************************************)
(* C40                                                                     *)
(***************************************************************************)
\* the rounds whose injection has taken place, and the number of packets
\* the adversary returned in round r
InjectedRounds ==
    {trace[i].rd : i \in {j \in 1..Len(trace) : trace[j].op = "get_next_packets"}}

NumInjected(r) ==
    LET i == CHOOSE j \in 1..Len(trace) :
                 trace[j].op = "get_next_packets" /\ trace[j].rd = r
    IN  Len(trace[i].x)

RECURSIVE SumInjected(_, _)
SumInjected(a, b) == IF a > b THEN 0 ELSE NumInjected(a) + SumInjected(a + 1, b)

\* the burst already used after round r: it grows by the packets injected
\* beyond one per round and shrinks by one in a round without injection
RECURSIVE BurstUsed(_)
BurstUsed(r) ==
    IF r = 0 THEN 0
    ELSE LET v == BurstUsed(r - 1) + NumInjected(r)
         IN  IF v = 0 THEN 0 ELSE v - 1

\* C40: for the bursty adversary with parameter sigma, 0 <= xi <= sigma in
\* every state, xi being the burst used so far; the number of packets of a
\* round is at most sigma - xi + 1 for the xi the round started with; and
\* over any t consecutive rounds at most t + sigma packets are injected,
\* whatever the random choices.
C40_BurstBound ==
    adversary.name = "sd_path_random_bursty" =>
        /\ 0 <= adversary.xi
        /\ adversary.xi <= adversary.sigma
        /\ \A r \in InjectedRounds :
              /\ r - 1 \in InjectedRounds \cup {0}
              /\ NumInjected(r) >= 0
              /\ NumInjected(r) <= adversary.sigma - BurstUsed(r - 1) + 1
              /\ (r + 1 \notin InjectedRounds) => adversary.xi = BurstUsed(r)
        /\ \A a, b \in InjectedRounds :
              a <= b => SumInjected(a, b) <= (b - a + 1) + adversary.sigma

\* sigma = 1: two packets in round 1 used the burst up, and one packet in
\* round 2 brought the two rounds to t + sigma = 3 packets
C40_Witness ==
    /\ adversary.name = "sd_path_random_bursty"
    /\ adversary.sigma = 1
    /\ InjectedRounds = {1, 2}
    /\ NumInjected(1) = 2
    /\ NumInjected(2) = 1
    /\ adversary.xi = 1
    /\ pc = "done"

====
